---- MODULE Spec2Model ----
(***************************************************************************)
(* Windy Notifier: the unit and classification library (converters.py),    *)
(* the WeatherLink extraction engine (weatherlink.py) and the observation  *)
(* pipeline with its scheduler loop (main.py).                             *)
(*                                                                         *)
(* Texts are sequences of one-character strings.  Numbers that Python      *)
(* holds as floats are exact decimals [m, e] standing for m / 10^e, kept   *)
(* normalised (no trailing zero in the fraction), so that record equality  *)
(* is numeric equality.  Python's None is the record None.                 *)
(***************************************************************************)
EXTENDS Integers, Sequences, FiniteSets, TLC

VARIABLES
    lib_fn,       \* library specifications: the function under call
    lib_in,       \* its argument(s)
    lib_out,      \* its result, Pending before the call
    pc,           \* run(): "startup", "loop", "stopped", "crashed" or "interrupted"
    config,       \* WIND_THRESHOLD, NOTIFICATION_METHOD and the environment
    clock,        \* number of check_wind calls that returned so far (time.time())
    last_check,   \* contents of debug/last_check.json, NoFile before the first write
    obs,          \* what the latest check_wind call that returned did
    before,       \* the check_wind call before that one, NoObs if there is none
    aborted       \* the check_wind call a KeyboardInterrupt ended, None if there is none

vars == <<lib_fn, lib_in, lib_out, pc, config, clock, last_check, obs, before, aborted>>

None == [none |-> TRUE]
Pending == [pending |-> TRUE]

\* debug/last_check.json does not exist; check_wind has not run; no configuration
NoFile == [nofile |-> TRUE]
NoObs == [noobs |-> TRUE]
NoConfig == [noconfig |-> TRUE]

\* a text where None may stand instead
Str(t) == [s |-> t]

\* the element of a singleton: Only({F(x) : x \in {e}}) is F(e) with e
\* evaluated once, the way an assignment "x = e" evaluates it
Only(S) == CHOOSE x \in S : TRUE

-----------------------------------------------------------------------------
(* Characters and texts                                                    *)

DigitChars == <<"0", "1", "2", "3", "4", "5", "6", "7", "8", "9">>
UpperChars == <<"A", "B", "C", "D", "E", "F", "G", "H", "I", "J", "K", "L", "M",
                "N", "O", "P", "Q", "R", "S", "T", "U", "V", "W", "X", "Y", "Z">>
LowerChars == <<"a", "b", "c", "d", "e", "f", "g", "h", "i", "j", "k", "l", "m",
                "n", "o", "p", "q", "r", "s", "t", "u", "v", "w", "x", "y", "z">>

IsDigit(c) == \E k \in 1..Len(DigitChars) : DigitChars[k] = c
DigitVal(c) == (CHOOSE k \in 1..Len(DigitChars) : DigitChars[k] = c) - 1
IsSpace(c) == c \in {" ", "\n", "\t"}

\* str.lower() on one character
LowerChar(c) ==
    IF \E k \in 1..Len(UpperChars) : UpperChars[k] = c
    THEN LowerChars[CHOOSE k \in 1..Len(UpperChars) : UpperChars[k] = c]
    ELSE c

Lower(t) == [i \in 1..Len(t) |-> LowerChar(t[i])]

\* the literal w (given in lower case) matches t at position i under re.I
MatchAt(t, i, w) ==
    /\ i >= 1
    /\ i + Len(w) - 1 <= Len(t)
    /\ \A k \in 1..Len(w) : LowerChar(t[i + k - 1]) = w[k]

\* w in t.lower(), for w in lower case
ContainsCI(t, w) == \E i \in 1..(Len(t) + 1) : MatchAt(t, i, w)

\* XPath contains(): case-sensitive substring
Contains(t, w) ==
    \E i \in 1..(Len(t) + 1) :
        /\ i + Len(w) - 1 <= Len(t)
        /\ \A k \in 1..Len(w) : t[i + k - 1] = w[k]

RECURSIVE LStrip(_)
LStrip(t) == IF t # <<>> /\ IsSpace(Head(t)) THEN LStrip(Tail(t)) ELSE t

RECURSIVE RStrip(_)
RStrip(t) ==
    IF t # <<>> /\ IsSpace(t[Len(t)]) THEN RStrip(SubSeq(t, 1, Len(t) - 1)) ELSE t

\* str.strip()
Strip(t) == RStrip(LStrip(t))

\* str.replace(',', '.')
ReplaceComma(t) == [i \in 1..Len(t) |-> IF t[i] = "," THEN "." ELSE t[i]]

-----------------------------------------------------------------------------
(* Exact decimals                                                          *)

RECURSIVE Pow10(_)
Pow10(n) == IF n = 0 THEN 1 ELSE 10 * Pow10(n - 1)

RECURSIVE DecNorm(_)
DecNorm(d) ==
    IF d.e > 0 /\ d.m % 10 = 0
    THEN DecNorm([m |-> d.m \div 10, e |-> d.e - 1])
    ELSE d

Dec(m, e) == DecNorm([m |-> m, e |-> e])
DecOfInt(n) == [m |-> n, e |-> 0]

\* n <= d and d <= n for an integer n and a decimal d
IntLeqDec(n, d) == n * Pow10(d.e) <= d.m
DecLeqInt(d, n) == d.m <= n * Pow10(d.e)

\* a <= b for two decimals
DecLeq(a, b) ==
    IF a.e >= b.e THEN a.m <= b.m * Pow10(a.e - b.e)
                  ELSE a.m * Pow10(b.e - a.e) <= b.m

\* a + b
DecAdd(a, b) ==
    IF a.e >= b.e THEN Dec(a.m + b.m * Pow10(a.e - b.e), a.e)
                  ELSE Dec(a.m * Pow10(b.e - a.e) + b.m, b.e)

\* float() of a string of digits with at most one '.'
RECURSIVE NatOfDigits(_)
NatOfDigits(t) ==
    IF t = <<>> THEN 0
    ELSE 10 * NatOfDigits(SubSeq(t, 1, Len(t) - 1)) + DigitVal(t[Len(t)])

FloatOf(t) ==
    LET dots == {i \in 1..Len(t) : t[i] = "."} IN
    IF dots = {} THEN Dec(NatOfDigits(t), 0)
    ELSE LET p == CHOOSE i \in dots : TRUE IN
         Dec(NatOfDigits(SubSeq(t, 1, p - 1) \o SubSeq(t, p + 1, Len(t))), Len(t) - p)

-----------------------------------------------------------------------------
(* The number-and-unit regular expression shared by converters.py and      *)
(* weatherlink.py:  (\d+(?:[,.]\d+)?)\s*(mph|km/h|kts|knots)   under re.I  *)

\* the alternation (mph|km/h|kts|knots), in the order the regex tries it
UnitTokens ==
    << <<"m", "p", "h">>, <<"k", "m", "/", "h">>, <<"k", "t", "s">>,
       <<"k", "n", "o", "t", "s">> >>

\* \d+ from position i, greedy: the position after the run of digits
RECURSIVE DigitsEnd(_, _)
DigitsEnd(t, i) == IF i <= Len(t) /\ IsDigit(t[i]) THEN DigitsEnd(t, i + 1) ELSE i

\* \d+(?:[,.]\d+)? from position i, greedy: the position after the number
NumEnd(t, i) ==
    LET j == DigitsEnd(t, i) IN
    IF j + 1 <= Len(t) /\ t[j] \in {",", "."} /\ IsDigit(t[j + 1])
    THEN DigitsEnd(t, j + 1)
    ELSE j

\* \s* from position i, greedy
RECURSIVE SpaceEnd(_, _)
SpaceEnd(t, i) == IF i <= Len(t) /\ IsSpace(t[i]) THEN SpaceEnd(t, i + 1) ELSE i

\* index of the first alternative of UnitTokens matching at i, 0 if none
UnitAt(t, i) ==
    LET hits == {k \in 1..Len(UnitTokens) : MatchAt(t, i, UnitTokens[k])} IN
    IF hits = {} THEN 0 ELSE CHOOSE k \in hits : \A h \in hits : k <= h

\* The match of the regex anchored at position i, or None; has2 tells whether
\* group 2 took part in the match.  Giving back
\* characters of the number or of the white space never helps the match:
\* the character that would then follow is a digit, a separator or white space,
\* and no unit token starts with one.
NumUnitAt(t, i, unitOptional) ==
    IF ~(i <= Len(t) /\ IsDigit(t[i])) THEN None
    ELSE LET n == NumEnd(t, i)
             s == SpaceEnd(t, n)
             u == UnitAt(t, s)
         IN  IF u # 0
             THEN [start |-> i, stop |-> s + Len(UnitTokens[u]),
                   group1 |-> SubSeq(t, i, n - 1), has2 |-> TRUE,
                   group2 |-> SubSeq(t, s, s + Len(UnitTokens[u]) - 1)]
             ELSE IF unitOptional
             THEN [start |-> i, stop |-> s,
                   group1 |-> SubSeq(t, i, n - 1), has2 |-> FALSE, group2 |-> <<>>]
             ELSE None

\* re.search(pattern, t, re.I) from position from: the leftmost match, or None
NumUnitSearchFrom(t, from, unitOptional) ==
    LET hits == {i \in from..Len(t) : NumUnitAt(t, i, unitOptional) # None} IN
    IF hits = {} THEN None
    ELSE NumUnitAt(t, CHOOSE i \in hits : \A h \in hits : i <= h, unitOptional)

NumUnitSearch(t, unitOptional) == NumUnitSearchFrom(t, 1, unitOptional)

\* group(0) of a match
Group0(t, mt) == SubSeq(t, mt.start, mt.stop - 1)

-----------------------------------------------------------------------------
(* Exceptions: a call either returns a value or raises                     *)

Raised(e) == [raised |-> e]
IsRaised(x) == "raised" \in DOMAIN x

-----------------------------------------------------------------------------
(* converters.py                                                           *)

T_knots == <<"k", "n", "o", "t", "s">>
T_kts == <<"k", "t", "s">>
T_kt == <<"k", "t">>
T_kmh == <<"k", "m", "/", "h">>
T_kph == <<"k", "p", "h">>
T_mph == <<"m", "p", "h">>
T_ms == <<"m", "/", "s">>

\* 0.539957, 0.868976 and 1.94384 as written in the source
KmhFactor == [m |-> 539957, e |-> 6]
MphFactor == [m |-> 868976, e |-> 6]
MsFactor == [m |-> 194384, e |-> 5]

\* value * factor
DecMul(a, b) == Dec(a.m * b.m, a.e + b.e)

convert_to_knots_wrong_factor(value, unit) ==
    LET u == Lower(unit) IN
         IF u \in {T_knots, T_kts, T_kt} THEN value
         ELSE IF u \in {T_kmh, T_kph} THEN DecMul(value, KmhFactor)
         ELSE IF u \in {T_mph} THEN DecMul(value, KmhFactor)
         ELSE IF u \in {T_ms} THEN DecMul(value, MsFactor)
         ELSE value

convert_to_knots_strict(value, unit) ==
    LET u == Lower(unit) IN
         IF u \in {T_knots, T_kts, T_kt} THEN value
         ELSE IF u \in {T_kmh, T_kph} THEN DecMul(value, KmhFactor)
         ELSE IF u \in {T_mph} THEN DecMul(value, MphFactor)
         ELSE IF u \in {T_ms} THEN DecMul(value, MsFactor)
         ELSE Raised("ValueError")

\* convert_to_knots(value, unit), unit a text
convert_to_knots(value, unit) ==
    LET u == Lower(unit) IN
         IF u \in {T_knots, T_kts, T_kt} THEN value
         ELSE IF u \in {T_kmh, T_kph} THEN DecMul(value, KmhFactor)
         ELSE IF u \in {T_mph} THEN DecMul(value, MphFactor)
         ELSE IF u \in {T_ms} THEN DecMul(value, MsFactor)
         ELSE value

parse_wind_data_last_number(wind_text) ==
    IF wind_text = <<>> THEN [value |-> None, unit |-> None]
    ELSE LET starts == {i \in 1..Len(wind_text) : NumUnitAt(wind_text, i, TRUE) # None} IN
         IF starts = {} THEN [value |-> None, unit |-> None]
         ELSE LET mt == NumUnitAt(wind_text,
                                  CHOOSE i \in starts : \A h \in starts : h <= i, TRUE)
              IN  [value |-> FloatOf(ReplaceComma(mt.group1)),
                   unit |-> Str(IF mt.has2 THEN Lower(mt.group2) ELSE T_mph)]

parse_wind_data_no_default(wind_text) ==
    IF wind_text = <<>> THEN [value |-> None, unit |-> None]
    ELSE Only({IF mt # None
               THEN [value |-> FloatOf(ReplaceComma(mt.group1)),
                     unit |-> Str(IF mt.has2 THEN Lower(mt.group2) ELSE <<>>)]
               ELSE [value |-> None, unit |-> None] : mt \in {NumUnitSearch(wind_text, TRUE)}})

\* parse_wind_data(wind_text): the tuple (value, unit), the unit as Str(..) or None
parse_wind_data(wind_text) ==
    IF wind_text = <<>> THEN [value |-> None, unit |-> None]
    ELSE Only({IF mt # None
               THEN [value |-> FloatOf(ReplaceComma(mt.group1)),
                     unit |-> Str(IF mt.has2 THEN Lower(mt.group2) ELSE T_mph)]
               ELSE [value |-> None, unit |-> None] : mt \in {NumUnitSearch(wind_text, TRUE)}})

\* the table of get_wind_description; the last band's upper bound is float('inf')
beaufort_scale ==
    << [lower |-> 0,  upper |-> 1,  inf |-> FALSE, desc |-> "Calm"],
       [lower |-> 1,  upper |-> 3,  inf |-> FALSE, desc |-> "Light air"],
       [lower |-> 4,  upper |-> 6,  inf |-> FALSE, desc |-> "Light breeze"],
       [lower |-> 7,  upper |-> 10, inf |-> FALSE, desc |-> "Gentle breeze"],
       [lower |-> 11, upper |-> 16, inf |-> FALSE, desc |-> "Moderate breeze"],
       [lower |-> 17, upper |-> 21, inf |-> FALSE, desc |-> "Fresh breeze"],
       [lower |-> 22, upper |-> 27, inf |-> FALSE, desc |-> "Strong breeze"],
       [lower |-> 28, upper |-> 33, inf |-> FALSE, desc |-> "Near gale"],
       [lower |-> 34, upper |-> 40, inf |-> FALSE, desc |-> "Gale"],
       [lower |-> 41, upper |-> 47, inf |-> FALSE, desc |-> "Strong gale"],
       [lower |-> 48, upper |-> 55, inf |-> FALSE, desc |-> "Storm"],
       [lower |-> 56, upper |-> 63, inf |-> FALSE, desc |-> "Violent storm"],
       [lower |-> 64, upper |-> 64, inf |-> TRUE,  desc |-> "Hurricane force"] >>

\* lower <= speed_knots <= upper for one row of the table
InBand(band, speed_knots) ==
    /\ IntLeqDec(band.lower, speed_knots)
    /\ band.inf \/ DecLeqInt(speed_knots, band.upper)

get_wind_description_last_match(speed_knots) ==
    IF speed_knots = None THEN [beaufort |-> 0, desc |-> "Unknown"]
    ELSE LET hits == {i \in 1..Len(beaufort_scale) : InBand(beaufort_scale[i], speed_knots)} IN
         IF hits # {}
         THEN LET i == CHOOSE k \in hits : \A h \in hits : h <= k IN
              [beaufort |-> i - 1, desc |-> beaufort_scale[i].desc]
         ELSE [beaufort |-> 12, desc |-> "Hurricane force"]

\* get_wind_description(speed_knots): the tuple (beaufort_number, description)
get_wind_description(speed_knots) ==
    IF speed_knots = None THEN [beaufort |-> 0, desc |-> "Unknown"]
    ELSE LET hits == {i \in 1..Len(beaufort_scale) : InBand(beaufort_scale[i], speed_knots)} IN
         IF hits # {}
         THEN LET i == CHOOSE k \in hits : \A h \in hits : k <= h IN
              [beaufort |-> i - 1, desc |-> beaufort_scale[i].desc]
         ELSE [beaufort |-> 12, desc |-> "Hurricane force"]

-----------------------------------------------------------------------------
(* weatherlink.py.  The rendered page is a sequence of rows                *)
(*     <div><span>label</span><span>value</span></div>                     *)
(* so the element following a label node is the value of its row, the      *)
(* parent of a value node is its row, and the text nodes of the document   *)
(* are label, value, label, value, ... in document order.                  *)

S_WindSpeed == <<"W", "i", "n", "d", " ", "S", "p", "e", "e", "d">>
S_CurrentWind == <<"C", "u", "r", "r", "e", "n", "t", " ", "W", "i", "n", "d">>
S_Wind == <<"W", "i", "n", "d">>
S_WindGust == <<"W", "i", "n", "d", " ", "G", "u", "s", "t">>
S_GustSpeed == <<"G", "u", "s", "t", " ", "S", "p", "e", "e", "d">>
S_Gust == <<"G", "u", "s", "t">>
S_WindDirection == <<"W", "i", "n", "d", " ", "D", "i", "r", "e", "c", "t", "i", "o", "n">>
S_Temperature == <<"T", "e", "m", "p", "e", "r", "a", "t", "u", "r", "e">>
K_wind == <<"w", "i", "n", "d">>
K_speed == <<"s", "p", "e", "e", "d">>
K_gust == <<"g", "u", "s", "t">>
K_rafale == <<"r", "a", "f", "a", "l", "e">>
K_from == <<"f", "r", "o", "m">>

\* the literals of the three label lists of get_weather_data, in priority order
WindLabels == <<S_WindSpeed, S_CurrentWind, S_Wind>>
GustLabels == <<S_WindGust, S_GustSpeed, S_Gust>>
LabelsOf(key) == IF key = "wind_speed" THEN WindLabels ELSE GustLabels

\* dictionaries: functions from the keys present
EmptyDict == [k \in {} |-> <<>>]
Has(d, k) == k \in DOMAIN d
Put(d, k, v) == [x \in (DOMAIN d) \cup {k} |-> IF x = k THEN v ELSE d[x]]

\* re.search(r'(\d+(?:[,.]\d+)?)\s*(mph|km/h|kts|knots)', text, re.I)
Validates(text) == NumUnitSearch(text, FALSE) # None

\* driver.find_elements(By.XPATH, "//*[contains(text(), label)]//following::*[1]"):
\* the texts of the elements found, in document order
RECURSIVE FollowingTexts(_, _)
FollowingTexts(page, label) ==
    IF page = <<>> THEN <<>>
    ELSE (IF Contains(Head(page).label, label) THEN <<Head(page).value>> ELSE <<>>)
         \o FollowingTexts(Tail(page), label)

\* the loop over one label's elements: the stripped text of the first element
\* that is non-empty and validates, as <<text>>, or <<>>
RECURSIVE FirstValidating(_)
FirstValidating(texts) ==
    IF texts = <<>> THEN <<>>
    ELSE Only({IF text # <<>> /\ Validates(text) THEN <<text>>
               ELSE FirstValidating(Tail(texts)) : text \in {Strip(Head(texts))}})

\* the loop over the labels
RECURSIVE LabelLookup(_, _)
LabelLookup(page, labels) ==
    IF labels = <<>> THEN <<>>
    ELSE Only({IF hit # <<>> THEN hit ELSE LabelLookup(page, Tail(labels)) :
                 hit \in {Only({FirstValidating(texts) :
                                  texts \in {FollowingTexts(page, Head(labels))}})}})

\* The value query //*[matches(text(), value_pattern)], where value_pattern is
\* the validating pattern with its parentheses removed:
\*     \d+?:[,.]\d+?\s*mph|km/h|kts|knots      (case-sensitive)
ValuePatternMatches(text) ==
    \/ Contains(text, T_kmh)
    \/ Contains(text, T_kts)
    \/ Contains(text, T_knots)
    \/ \E i \in 1..Len(text) :
          /\ IsDigit(text[i])
          /\ i + 3 <= Len(text)
          /\ text[i + 1] = ":"
          /\ text[i + 2] \in {",", "."}
          /\ IsDigit(text[i + 3])
          /\ LET s == SpaceEnd(text, DigitsEnd(text, i + 3)) IN
             /\ s + 2 <= Len(text)
             /\ SubSeq(text, s, s + 2) = T_mph

\* parent.text of a row
RowText(row) == row.label \o <<"\n">> \o row.value

\* the nodes the value query finds, in document order, each with its parent's text
RECURSIVE ValueNodes(_)
ValueNodes(page) ==
    IF page = <<>> THEN <<>>
    ELSE (IF ValuePatternMatches(Head(page).label)
          THEN <<[text |-> Head(page).label, parent |-> RowText(Head(page))]>> ELSE <<>>)
         \o (IF ValuePatternMatches(Head(page).value)
             THEN <<[text |-> Head(page).value, parent |-> RowText(Head(page))]>> ELSE <<>>)
         \o ValueNodes(Tail(page))

RECURSIVE ValueLookup_any_parent(_, _)
ValueLookup_any_parent(nodes, labels) ==
    IF nodes = <<>> THEN <<>>
    ELSE Only({IF text # <<>> /\ Validates(text)
               THEN <<text>>
               ELSE ValueLookup_any_parent(Tail(nodes), labels) :
                 text \in {Strip(Head(nodes).text)}})

\* the loop over the value nodes
RECURSIVE ValueLookup(_, _)
ValueLookup(nodes, labels) ==
    IF nodes = <<>> THEN <<>>
    ELSE Only({IF /\ text # <<>> /\ Validates(text)
                  /\ \E k \in 1..Len(labels) :
                        ContainsCI(Head(nodes).parent, Lower(labels[k]))
               THEN <<text>>
               ELSE ValueLookup(Tail(nodes), labels) : text \in {Strip(Head(nodes).text)}})

extract_element_by_label_reversed(env, data_dict, key, labels) ==
    IF env.direct_fail = key THEN Raised("WebDriverException")
    ELSE Only({IF hit # <<>> THEN [ret |-> TRUE, data |-> Put(data_dict, key, hit[1])]
               ELSE [ret |-> FALSE, data |-> data_dict] :
                 hit \in {LabelLookup(env.page,
                              [k \in 1..Len(labels) |-> labels[Len(labels) + 1 - k]])}})

\* extract_element_by_label(driver, data_dict, key, labels, pattern): what it
\* returns and the dictionary it leaves, or the exception of a failing driver.
\* env.direct_fail names the field during whose label queries the driver
\* raises; env.matches_supported tells whether the driver accepts matches().
extract_element_by_label(env, data_dict, key, labels) ==
    IF env.direct_fail = key THEN Raised("WebDriverException")
    ELSE Only({IF hit # <<>> THEN [ret |-> TRUE, data |-> Put(data_dict, key, hit[1])]
               ELSE IF ~env.matches_supported THEN [ret |-> FALSE, data |-> data_dict]
               ELSE Only({IF byValue # <<>>
                          THEN [ret |-> TRUE, data |-> Put(data_dict, key, byValue[1])]
                          ELSE [ret |-> FALSE, data |-> data_dict] :
                            byValue \in {Only({ValueLookup(nodes, labels) :
                                                 nodes \in {ValueNodes(env.page)}})}}) :
                 hit \in {LabelLookup(env.page, labels)}})

\* re.search(r'(\d+(?:[,.]\d+)?)\s*[°]?[CF]', text, re.I)
TemperatureValidates(text) ==
    \E i \in 1..Len(text) :
        /\ IsDigit(text[i])
        /\ LET s == SpaceEnd(text, NumEnd(text, i))
               c == IF s <= Len(text) /\ text[s] = "°" THEN s + 1 ELSE s
           IN  c <= Len(text) /\ LowerChar(text[c]) \in {"c", "f"}

\* the loops of get_weather_data over the elements following 'Wind Direction'
\* and 'Temperature'
RECURSIVE FirstNonEmpty(_)
FirstNonEmpty(texts) ==
    IF texts = <<>> THEN <<>>
    ELSE IF Strip(Head(texts)) # <<>> THEN <<Strip(Head(texts))>>
    ELSE FirstNonEmpty(Tail(texts))

RECURSIVE FirstTemperature(_)
FirstTemperature(texts) ==
    IF texts = <<>> THEN <<>>
    ELSE LET text == Strip(Head(texts)) IN
         IF text # <<>> /\ TemperatureValidates(text) THEN <<text>>
         ELSE FirstTemperature(Tail(texts))

PutIf(d, k, found) == IF found # <<>> THEN Put(d, k, found[1]) ELSE d

\* the "Temperature" loop of the try block, entered with dictionary d
DirectTemperature(env, d) ==
    IF env.direct_fail = "temperature" THEN d
    ELSE PutIf(d, "temperature", FirstTemperature(FollowingTexts(env.page, S_Temperature)))

\* the "Wind Direction" loop of the try block and what follows it
DirectWindDirection(env, d) ==
    IF env.direct_fail = "wind_direction" THEN d
    ELSE DirectTemperature(env,
             PutIf(d, "wind_direction", FirstNonEmpty(FollowingTexts(env.page, S_WindDirection))))

\* the try block after the gust_speed call returned or raised gs
DirectAfterGust(env, d, gs) ==
    IF IsRaised(gs) THEN d ELSE DirectWindDirection(env, gs.data)

\* the try block after the wind_speed call returned or raised ws
DirectAfterWind(env, ws) ==
    IF IsRaised(ws) THEN EmptyDict
    ELSE Only({DirectAfterGust(env, ws.data, gs) :
                 gs \in {extract_element_by_label(env, ws.data, "gust_speed", GustLabels)}})

\* the try block "DIRECT TARGETING" of get_weather_data: the dictionary as it
\* stands when the block ends or is left by an exception
DirectTargeting(env) ==
    Only({DirectAfterWind(env, ws) :
            ws \in {extract_element_by_label(env, EmptyDict, "wind_speed", WindLabels)}})

\* the strings of the parsed document (soup.find_all(string=...) searches
\* them), in document order
RECURSIVE TextNodes(_)
TextNodes(page) ==
    IF page = <<>> THEN <<>>
    ELSE (IF Head(page).label # <<>> THEN <<Head(page).label>> ELSE <<>>)
         \o (IF Head(page).value # <<>> THEN <<Head(page).value>> ELSE <<>>)
         \o TextNodes(Tail(page))

\* wind\s+speed or gust matching at position i under re.I: the position after
\* the match, 0 if there is none
KeywordEnd(t, i, key) ==
    IF key = "wind_speed"
    THEN LET s == SpaceEnd(t, i + Len(K_wind)) IN
         IF MatchAt(t, i, K_wind) /\ s > i + Len(K_wind) /\ MatchAt(t, s, K_speed)
         THEN s + Len(K_speed) ELSE 0
    ELSE IF MatchAt(t, i, K_gust) THEN i + Len(K_gust) ELSE 0

HasUnitToken(t) == \E k \in 1..Len(UnitTokens) : ContainsCI(t, UnitTokens[k])

\* re.compile(r'(?:wind\s+speed|mph|km/h|kts|knots)', re.I) and
\* re.compile(r'(?:gust|rafale|mph|km/h|kts|knots)', re.I), searched in a string
KeywordMatches(t, key) ==
    IF key = "wind_speed"
    THEN HasUnitToken(t) \/ \E i \in 1..Len(t) : KeywordEnd(t, i, key) # 0
    ELSE HasUnitToken(t) \/ ContainsCI(t, K_gust) \/ ContainsCI(t, K_rafale)

\* extract_from_elements(elements, data_dict, key, pattern) on the strings
\* that soup.find_all(string=keyword regex) returns: group(0) of the first match
RECURSIVE extract_from_elements(_, _)
extract_from_elements(strings, key) ==
    IF strings = <<>> THEN <<>>
    ELSE Only({IF KeywordMatches(Head(strings), key) /\ mt # None
               THEN <<Group0(Strip(Head(strings)), mt)>>
               ELSE extract_from_elements(Tail(strings), key) :
                 mt \in {Only({NumUnitSearch(text, FALSE) : text \in {Strip(Head(strings))}})}})

\* soup.get_text(separator='\n', strip=True)
RECURSIVE JoinLines(_)
JoinLines(strings) ==
    IF strings = <<>> THEN <<>>
    ELSE LET text == Strip(Head(strings))
             rest == JoinLines(Tail(strings))
         IN  IF text = <<>> THEN rest
             ELSE IF rest = <<>> THEN text
             ELSE text \o <<"\n">> \o rest

\* keyword.*?(number)\s*(unit) anchored at keyword position i: the lazy .*?
\* stops at the first position, on the keyword's line, where number and unit match
ContextAt(t, i, key) ==
    LET k == KeywordEnd(t, i, key)
        js == IF k = 0 THEN {}
              ELSE {j \in k..Len(t) :
                      /\ \A x \in k..(j - 1) : t[x] # "\n"
                      /\ NumUnitAt(t, j, FALSE) # None}
    IN  IF js = {} THEN None
        ELSE NumUnitAt(t, CHOOSE j \in js : \A h \in js : j <= h, FALSE)

\* extract_from_text(text, data_dict, key, context_pattern, fallback_pattern):
\* the text stored, as <<text>>, or <<>>
extract_from_text(t, key) ==
    Only({IF mt = None THEN <<>> ELSE <<ReplaceComma(mt.group1) \o <<" ">> \o mt.group2>> :
            mt \in {Only({IF starts # {}
                          THEN ContextAt(t, CHOOSE i \in starts : \A h \in starts : i <= h, key)
                          ELSE NumUnitSearch(t, FALSE) :
                            starts \in {{i \in 1..Len(t) : ContextAt(t, i, key) # None}}})}})

DirectionWords ==
    << <<"n", "o", "r", "t", "h">>,
       <<"s", "o", "u", "t", "h">>,
       <<"e", "a", "s", "t">>,
       <<"w", "e", "s", "t">>,
       <<"n", "o", "r", "d">>,
       <<"s", "u", "d">>,
       <<"e", "s", "t">>,
       <<"o", "u", "e", "s", "t">> >>

\* re.search(r'(?:wind|from)\s+([NESW]{1,3}|North|South|East|West|Nord|Sud|Est|Ouest)',
\*           all_text, re.I): group(1) of the match anchored at i, as <<text>>, or <<>>
DirectionAt(t, i) ==
    LET s == SpaceEnd(t, i + 4)
        compass(x) == x <= Len(t) /\ LowerChar(t[x]) \in {"n", "e", "s", "w"}
        words == {k \in 1..Len(DirectionWords) : MatchAt(t, s, DirectionWords[k])}
    IN  IF ~((MatchAt(t, i, K_wind) \/ MatchAt(t, i, K_from)) /\ s > i + 4) THEN <<>>
        ELSE IF compass(s)
             THEN <<SubSeq(t, s, IF compass(s + 1)
                                 THEN (IF compass(s + 2) THEN s + 2 ELSE s + 1)
                                 ELSE s)>>
        ELSE IF words # {}
             THEN LET k == CHOOSE w \in words : \A h \in words : w <= h IN
                  <<SubSeq(t, s, s + Len(DirectionWords[k]) - 1)>>
        ELSE <<>>

DirectionSearch(t) ==
    LET starts == {i \in 1..Len(t) : DirectionAt(t, i) # <<>>} IN
    IF starts = {} THEN <<>>
    ELSE DirectionAt(t, CHOOSE i \in starts : \A h \in starts : i <= h)

\* "if key not in weather_data: extract_from_elements(...)"
FallbackElements(d, strings, key) ==
    IF ~Has(d, key) THEN PutIf(d, key, extract_from_elements(strings, key)) ELSE d

\* "if key not in weather_data: extract_from_text(...)"
FallbackText(d, all_text, key) ==
    IF ~Has(d, key) THEN PutIf(d, key, extract_from_text(all_text, key)) ELSE d

\* "if 'wind_direction' not in weather_data: ..."
FallbackDirection(d, all_text) ==
    IF ~Has(d, "wind_direction") THEN PutIf(d, "wind_direction", DirectionSearch(all_text))
    ELSE d

\* the four extractions of fallback_extraction, in the order of the code
FallbackSpeeds(d, strings, all_text) ==
    Only({FallbackText(d3, all_text, "gust_speed") :
            d3 \in {Only({FallbackText(d2, all_text, "wind_speed") :
                d2 \in {Only({FallbackElements(d1, strings, "gust_speed") :
                    d1 \in {FallbackElements(d, strings, "wind_speed")}})}})}})

\* fallback_extraction(driver, weather_data, save_debug_files): the dictionary
\* it leaves, or the exception raised by driver.page_source or by writing
\* debug/last_weatherlink_page.html (env.fallback_fail)
fallback_extraction(env, weather_data) ==
    IF env.fallback_fail THEN Raised("Exception")
    ELSE Only({FallbackDirection(FallbackSpeeds(weather_data, strings, all_text), all_text) :
                 strings \in {TextNodes(env.page)}, all_text \in {JoinLines(TextNodes(env.page))}})

NeedsFallback_wind_only(weather_data) == ~Has(weather_data, "wind_speed")

\* the condition under which get_weather_data calls fallback_extraction
NeedsFallback(weather_data) ==
    ~Has(weather_data, "wind_speed") \/ ~Has(weather_data, "gust_speed")

\* "if 'wind_speed' not in weather_data or 'gust_speed' not in weather_data:
\*      fallback_extraction(driver, weather_data, save_debug_files)"
WithFallback(env, weather_data) ==
    IF NeedsFallback(weather_data) THEN fallback_extraction(env, weather_data)
    ELSE weather_data

\* the outer try block of get_weather_data: the dictionary returned, or the
\* exception raised by webdriver.Chrome (env.fetch = "driver_fail"), by
\* driver.get (env.fetch = "load_fail") or by fallback_extraction
get_weather_data_try(env) ==
    IF env.fetch # "ok" THEN Raised("WebDriverException")
    ELSE Only({WithFallback(env, weather_data) : weather_data \in {DirectTargeting(env)}})

get_weather_data_no_except(env) == get_weather_data_try(env)

\* get_weather_data(): "except Exception: return {}"; driver.quit() in the
\* finally clause does not raise (the Chrome driver's quit swallows errors)
get_weather_data(env) ==
    Only({IF IsRaised(r) THEN EmptyDict ELSE r : r \in {get_weather_data_try(env)}})

-----------------------------------------------------------------------------
(* notifiers.  environ is the process environment after load_dotenv(): a   *)
(* variable that is not set is None, RECIPIENT_EMAIL and TELEGRAM_CHAT_ID  *)
(* are the lists of their comma-separated entries (<<>> when not set).     *)
(* world is what the SMTP server or the bot API does during the call.      *)

\* int(text) succeeds
IsIntText(text) == text # <<>> /\ \A i \in 1..Len(text) : IsDigit(text[i])

\* what a channel does when it sends nothing
NotSent == [attempts |-> <<>>, ret |-> FALSE]

\* SimpleSmtpNotifier.__init__ with config None, or the ValueError of int()
SimpleSmtpNotifier(environ) ==
    IF ~IsIntText(environ.SMTP_PORT) THEN Raised("ValueError")
    ELSE LET sender_email ==
                 IF environ.SENDER_EMAIL = None /\ environ.SMTP_USERNAME # None
                 THEN environ.SMTP_USERNAME ELSE environ.SENDER_EMAIL
         IN  [smtp_server |-> IF environ.SMTP_SERVER = None THEN Str("smtp.gmail.com")
                              ELSE environ.SMTP_SERVER,
              smtp_port |-> NatOfDigits(environ.SMTP_PORT),
              smtp_username |-> environ.SMTP_USERNAME,
              smtp_password |-> environ.SMTP_PASSWORD,
              sender_email |-> sender_email,
              recipients |-> environ.RECIPIENT_EMAIL,
              is_configured |-> /\ environ.SMTP_USERNAME # None
                                /\ environ.SMTP_PASSWORD # None
                                /\ sender_email # None
                                /\ environ.RECIPIENT_EMAIL # <<>>]

\* EmailNotifier.__init__ with config None: no default server, no default
\* sender, and "".split(',') is [''], a list that is not empty
EmailNotifier(environ) ==
    IF ~IsIntText(environ.SMTP_PORT) THEN Raised("ValueError")
    ELSE Only({[smtp_server |-> environ.SMTP_SERVER,
                smtp_port |-> NatOfDigits(environ.SMTP_PORT),
                smtp_username |-> environ.SMTP_USERNAME,
                smtp_password |-> environ.SMTP_PASSWORD,
                sender_email |-> environ.SENDER_EMAIL,
                recipients |-> recipients,
                is_configured |-> /\ environ.SMTP_SERVER # None
                                  /\ environ.SMTP_USERNAME # None
                                  /\ environ.SMTP_PASSWORD # None
                                  /\ environ.SENDER_EMAIL # None
                                  /\ recipients # <<>>] :
                  recipients \in {IF environ.RECIPIENT_EMAIL = <<>> THEN << "" >>
                                  ELSE environ.RECIPIENT_EMAIL}})

RECURSIVE SendToAll_stop_at_failure(_, _)
SendToAll_stop_at_failure(recipients, world) ==
    IF recipients = <<>> THEN <<>>
    ELSE IF Head(recipients) = "" \/ Head(recipients) \in world.refused
    THEN <<[to |-> Head(recipients), ok |-> FALSE, to_headers |-> <<Head(recipients)>>]>>
    ELSE <<[to |-> Head(recipients), ok |-> TRUE, to_headers |-> <<Head(recipients)>>]>>
         \o SendToAll_stop_at_failure(Tail(recipients), world)

\* "for recipient in self.recipients: try: message["To"] = recipient;
\* server.sendmail(...) except Exception: success = False": the attempts
\* made, in order; the server refuses the recipients in world.refused and the
\* empty address.  The one message object is built before the loop, and
\* Message.__setitem__ appends a header, it does not replace one: to_headers
\* are the To headers of the message as the k-th sendmail transmits it.
SendToAll(recipients, world) ==
    [k \in 1..Len(recipients) |->
        [to |-> recipients[k],
         ok |-> recipients[k] # "" /\ recipients[k] \notin world.refused,
         to_headers |-> SubSeq(recipients, 1, k)]]

\* send_notification of SimpleSmtpNotifier and of EmailNotifier: the attempts
\* made and the value returned.  world.session tells whether smtplib.SMTP(),
\* starttls() and login() succeed ("ok") or raise.
SmtpSend(notifier, world) ==
    IF ~notifier.is_configured THEN NotSent
    ELSE IF world.session # "ok" THEN NotSent
    ELSE Only({[attempts |-> attempts,
                ret |-> \A k \in 1..Len(attempts) : attempts[k].ok] :
                  attempts \in {SendToAll(notifier.recipients, world)}})

\* send_simple_smtp_notification(wind_speed, wind_gust, threshold)
send_simple_smtp_notification(environ, world) ==
    Only({IF IsRaised(notifier) THEN notifier
          ELSE IF notifier.is_configured THEN SmtpSend(notifier, world)
          ELSE NotSent : notifier \in {SimpleSmtpNotifier(environ)}})

\* send_email_notification(wind_speed, wind_gust, threshold)
send_email_notification(environ, world) ==
    Only({IF IsRaised(notifier) THEN notifier
          ELSE IF notifier.is_configured THEN SmtpSend(notifier, world)
          ELSE NotSent : notifier \in {EmailNotifier(environ)}})

\* TelegramNotifier.__init__ with config None
TelegramNotifier(environ) ==
    [bot_token |-> environ.TELEGRAM_BOT_TOKEN,
     chat_ids |-> environ.TELEGRAM_CHAT_ID,
     is_configured |-> environ.TELEGRAM_BOT_TOKEN # None /\ environ.TELEGRAM_CHAT_ID # <<>>]

\* "for chat_id in self.chat_ids: try: requests.post(...) ... except
\* Exception: success = False": the attempts made, in order; for the chats in
\* world.failing the request raises or the API answers ok = false
RECURSIVE PostToAll(_, _)
PostToAll(chat_ids, world) ==
    IF chat_ids = <<>> THEN <<>>
    ELSE <<[to |-> Head(chat_ids), ok |-> Head(chat_ids) \notin world.failing]>>
         \o PostToAll(Tail(chat_ids), world)

\* TelegramNotifier.send_notification
TelegramSend(notifier, world) ==
    IF ~notifier.is_configured THEN NotSent
    ELSE Only({[attempts |-> attempts,
                ret |-> \A k \in 1..Len(attempts) : attempts[k].ok] :
                  attempts \in {PostToAll(notifier.chat_ids, world)}})

\* send_telegram_notification(wind_speed, wind_gust, threshold)
send_telegram_notification(environ, world) ==
    Only({IF notifier.is_configured THEN TelegramSend(notifier, world)
          ELSE NotSent : notifier \in {TelegramNotifier(environ)}})

-----------------------------------------------------------------------------
(* main.py                                                                 *)

\* "convert_to_knots(speed_value, unit)" under "if speed_value is not None"
KnotsOf(parsed) ==
    IF parsed.value # None THEN convert_to_knots(parsed.value, parsed.unit.s) ELSE None

KnotsAt_default_zero(weather_data, key) ==
    IF Has(weather_data, key)
    THEN Only({KnotsOf(parsed) : parsed \in {parse_wind_data(weather_data[key])}})
    ELSE DecOfInt(0)

\* "parse_wind_data(weather_data['wind_speed'])" under "if 'wind_speed' in
\* weather_data" and the conversion that follows; likewise for gust_speed
KnotsAt(weather_data, key) ==
    IF Has(weather_data, key)
    THEN Only({KnotsOf(parsed) : parsed \in {parse_wind_data(weather_data[key])}})
    ELSE None

\* "return wind_speed, wind_gust", unless a conversion raised
WindPair(wind_speed, wind_gust) ==
    IF IsRaised(wind_speed) THEN wind_speed
    ELSE IF IsRaised(wind_gust) THEN wind_gust
    ELSE [wind_speed |-> wind_speed, wind_gust |-> wind_gust]

\* the try block of get_wind_data after "weather_data = get_weather_data()"
WindOf(weather_data) ==
    IF IsRaised(weather_data) THEN weather_data
    ELSE Only({WindPair(wind_speed, wind_gust) :
                 wind_speed \in {KnotsAt(weather_data, "wind_speed")},
                 wind_gust \in {KnotsAt(weather_data, "gust_speed")}})

\* get_wind_data(), the body of its try block: (wind_speed, wind_gust) in
\* knots, or the exception that leaves the block
get_wind_data_try(env) ==
    Only({WindOf(weather_data) : weather_data \in {get_weather_data(env)}})

\* "except Exception: return None, None"
NoneIfRaised(r) == IF IsRaised(r) THEN [wind_speed |-> None, wind_gust |-> None] ELSE r

\* get_wind_data()
get_wind_data(env) == Only({NoneIfRaised(r) : r \in {get_wind_data_try(env)}})

\* One channel function called by send_notification and how the call ended:
\* outcome is "ok" (it returned True), "fail" (it returned False) or "raise"
Call(channel, r) ==
    [channel |-> channel,
     outcome |-> IF IsRaised(r) THEN "raise" ELSE IF r.ret THEN "ok" ELSE "fail",
     attempts |-> IF IsRaised(r) THEN <<>> ELSE r.attempts]

\* send_notification(wind_speed, wind_gust): the channel calls made, in
\* order, each with (wind_speed, wind_gust, threshold), and how the call ends.
\* windy_notifier.notifiers.simple_smtp_notifier is part of the package, so
\* its import succeeds; an exception of the email call leaves the function
\* before the Telegram call.
send_notification(cfg, wind_speed, wind_gust, env) ==
    LET args == [wind_speed |-> wind_speed, wind_gust |-> wind_gust,
                 threshold |-> cfg.threshold]
        result(calls) ==
            [args |-> args, calls |-> calls,
             raised |-> \E k \in 1..Len(calls) : calls[k].outcome = "raise",
             ret |-> \E k \in 1..Len(calls) : calls[k].outcome = "ok"]
    IN  IF cfg.method = "telegram"
        THEN result(<<Call("telegram", send_telegram_notification(cfg.environ, env.telegram))>>)
        ELSE IF cfg.method = "email"
        THEN result(<<Call("simple_smtp", send_simple_smtp_notification(cfg.environ, env.smtp))>>)
        ELSE IF cfg.method = "both"
        THEN Only({IF email.outcome = "raise"
                   THEN result(<<email>>)
                   ELSE result(<<email,
                                 Call("telegram",
                                      send_telegram_notification(cfg.environ, env.telegram))>>) :
                     email \in {Call("simple_smtp",
                                     send_simple_smtp_notification(cfg.environ, env.smtp))}})
        ELSE result(<<Call("email", send_email_notification(cfg.environ, env.smtp))>>)

NotCalled == [args |-> None, calls |-> <<>>, raised |-> FALSE, ret |-> FALSE]

\* save_last_check(wind_speed, wind_gust): the record it writes to
\* debug/last_check.json, if it does; an exception of open() or json.dump()
\* (env.save = "fail") is caught inside and leaves the file as it was
NotWritten == [written |-> FALSE, data |-> None]

save_last_check_strict(cfg, now, wind_speed, wind_gust, env) ==
    LET d == get_wind_description(wind_speed)
        data == [timestamp |-> now, datetime |-> now,
                 wind_speed |-> wind_speed, wind_gust |-> wind_gust,
                 wind_description |-> d.desc, beaufort_scale |-> d.beaufort,
                 threshold |-> cfg.threshold,
                 above_threshold |-> ~DecLeqInt(wind_speed, cfg.threshold)]
    IN  IF env.save = "fail" THEN NotWritten ELSE [written |-> TRUE, data |-> data]

save_last_check_counting(cfg, now, wind_speed, wind_gust, env) ==
    LET d == get_wind_description(wind_speed)
        data == [timestamp |-> now, datetime |-> now,
                 wind_speed |-> wind_speed, wind_gust |-> wind_gust,
                 wind_description |-> d.desc, beaufort_scale |-> d.beaufort,
                 threshold |-> cfg.threshold + now - 1,
                 above_threshold |-> IntLeqDec(cfg.threshold, wind_speed)]
    IN  IF env.save = "fail" THEN NotWritten ELSE [written |-> TRUE, data |-> data]

save_last_check(cfg, now, wind_speed, wind_gust, env) ==
    LET d == get_wind_description(wind_speed)
        data == [timestamp |-> now, datetime |-> now,
                 wind_speed |-> wind_speed, wind_gust |-> wind_gust,
                 wind_description |-> d.desc, beaufort_scale |-> d.beaufort,
                 threshold |-> cfg.threshold,
                 above_threshold |-> IntLeqDec(cfg.threshold, wind_speed)]
    IN  IF env.save = "fail" THEN NotWritten ELSE [written |-> TRUE, data |-> data]

\* the pages the cycles of the scheduler fetch
PipelinePages ==
    { <<[label |-> <<"W", "i", "n", "d", " ", "S", "p", "e", "e", "d">>, value |-> <<"1", "9", " ", "m", "p", "h">>]>>,
      <<[label |-> <<"W", "i", "n", "d", " ", "S", "p", "e", "e", "d">>, value |-> <<"1", "5", " ", "k", "t", "s">>], [label |-> <<"W", "i", "n", "d", " ", "G", "u", "s", "t">>, value |-> <<"3", "0", " ", "k", "m", "/", "h">>]>>,
      <<[label |-> <<"W", "i", "n", "d", " ", "S", "p", "e", "e", "d">>, value |-> <<"1", "4", ".", "9", "9", " ", "k", "n", "o", "t", "s">>], [label |-> <<"W", "i", "n", "d", " ", "G", "u", "s", "t">>, value |-> <<"3", "0", " ", "k", "m", "/", "h">>]>>,
      <<[label |-> <<"W", "i", "n", "d", " ", "S", "p", "e", "e", "d">>, value |-> <<"-", "-">>]>>,
      <<[label |-> <<"V", "e", "n", "t">>, value |-> <<"2", "5", " ", "k", "t", "s">>]>>,
      <<>>,
      <<[label |-> <<"W", "i", "n", "d", " ", "D", "i", "r", "e", "c", "t", "i", "o", "n">>, value |-> <<"N", "E">>], [label |-> <<"T", "e", "m", "p", "e", "r", "a", "t", "u", "r", "e">>, value |-> <<"2", "1", " ", "°", "C">>]>>,
      <<[label |-> <<"G", "u", "s", "t">>, value |-> <<"1", "7", ",", "3", " ", "k", "m", "/", "h">>]>> }

\* what the web and the driver do during one get_weather_data call
FetchEnvs(pages) ==
    [fetch : {"ok"}, page : pages,
     direct_fail : {"none", "wind_speed", "gust_speed", "wind_direction", "temperature"},
     matches_supported : BOOLEAN, fallback_fail : BOOLEAN]
    \cup [fetch : {"driver_fail", "load_fail"}, page : {<<>>}, direct_fail : {"none"},
          matches_supported : {FALSE}, fallback_fail : {FALSE}]

\* get_weather_data() and get_wind_data() in each of these, tabulated
Fetched ==
    [web \in FetchEnvs(PipelinePages) |->
        [weather_data |-> get_weather_data(web), wind |-> get_wind_data(web)]] @@ <<>>

Dispatch_strict(cfg, w, env) ==
    IF ~DecLeqInt(w.wind_speed, cfg.threshold)
    THEN send_notification(cfg, w.wind_speed, w.wind_gust, env)
    ELSE NotCalled

Dispatch_gust_too(cfg, w, env) ==
    IF \/ IntLeqDec(cfg.threshold, w.wind_speed)
       \/ w.wind_gust # None /\ IntLeqDec(cfg.threshold, w.wind_gust)
    THEN send_notification(cfg, w.wind_speed, w.wind_gust, env)
    ELSE NotCalled

\* "if wind_speed >= WIND_THRESHOLD: send_notification(wind_speed, wind_gust)"
Dispatch(cfg, w, env) ==
    IF IntLeqDec(cfg.threshold, w.wind_speed)
    THEN send_notification(cfg, w.wind_speed, w.wind_gust, env)
    ELSE NotCalled

\* "save_last_check(wind_speed, wind_gust)", reached when the dispatch
\* returned
SaveAfter(cfg, now, w, env, sent) ==
    IF sent.raised THEN NotWritten
    ELSE save_last_check(cfg, now, w.wind_speed, w.wind_gust, env)

\* the try block of check_wind after "wind_speed, wind_gust = get_wind_data()"
\* returned w from the dictionary weather_data
CheckFetched(cfg, now, env, weather_data, w) ==
    [cycle |-> now, web |-> env.web, fetch |-> env.web.fetch, weather_data |-> weather_data,
     wind_speed |-> w.wind_speed, wind_gust |-> w.wind_gust,
     notification |-> IF w.wind_speed = None THEN NotCalled ELSE Dispatch(cfg, w, env),
     saved |-> w.wind_speed # None /\ ~Dispatch(cfg, w, env).raised,
     raised |-> w.wind_speed # None /\ Dispatch(cfg, w, env).raised,
     write |-> IF w.wind_speed = None THEN NotWritten
               ELSE SaveAfter(cfg, now, w, env, Dispatch(cfg, w, env))]

\* check_wind(), the body of its try block, at time now.  raised: an
\* exception leaves the block; notification: the send_notification call,
\* NotCalled if there is none; saved: save_last_check was called; write: what
\* it wrote.
check_wind_try(cfg, now, env) ==
    Only({CheckFetched(cfg, now, env, f.weather_data, f.wind) : f \in {Fetched[env.web]}})

check_wind_no_except(cfg, now, env) ==
    check_wind_try(cfg, now, env) @@ [escaped |-> check_wind_try(cfg, now, env).raised]

\* check_wind(): "except Exception" logs and returns; escaped tells whether an
\* exception leaves check_wind
check_wind(cfg, now, env) ==
    check_wind_try(cfg, now, env) @@ [escaped |-> FALSE]

-----------------------------------------------------------------------------
(* The scheduler: run() calls check_wind() once at startup, then on every   *)
(* due job of schedule.run_pending(), until KeyboardInterrupt.             *)

MaxCycles == 2

\* the entries RECIPIENT_EMAIL and TELEGRAM_CHAT_ID are made of
AddressBook == <<"a@example.org", "b@example.org", "c@example.org">>
ChatBook == <<"100", "200", "300">>

\* environments of the scheduler: everything set; SMTP_PORT not a number;
\* only the SMTP account and the recipient set
CycleEnvirons ==
    { [SMTP_SERVER |-> Str("smtp.example.org"), SMTP_PORT |-> <<"5", "8", "7">>,
       SMTP_USERNAME |-> Str("user"), SMTP_PASSWORD |-> Str("secret"),
       SENDER_EMAIL |-> Str("port@example.org"), RECIPIENT_EMAIL |-> SubSeq(AddressBook, 1, 1),
       TELEGRAM_BOT_TOKEN |-> Str("token"), TELEGRAM_CHAT_ID |-> SubSeq(ChatBook, 1, 1)],
      [SMTP_SERVER |-> Str("smtp.example.org"), SMTP_PORT |-> <<"a", "b", "c">>,
       SMTP_USERNAME |-> Str("user"), SMTP_PASSWORD |-> Str("secret"),
       SENDER_EMAIL |-> Str("port@example.org"), RECIPIENT_EMAIL |-> SubSeq(AddressBook, 1, 1),
       TELEGRAM_BOT_TOKEN |-> Str("token"), TELEGRAM_CHAT_ID |-> SubSeq(ChatBook, 1, 1)],
      [SMTP_SERVER |-> None, SMTP_PORT |-> <<"5", "8", "7">>,
       SMTP_USERNAME |-> Str("user"), SMTP_PASSWORD |-> Str("secret"),
       SENDER_EMAIL |-> None, RECIPIENT_EMAIL |-> SubSeq(AddressBook, 1, 1),
       TELEGRAM_BOT_TOKEN |-> None, TELEGRAM_CHAT_ID |-> <<>>] }

\* the values the environment gives WIND_THRESHOLD and NOTIFICATION_METHOD
Thresholds == {15, 17}
Methods == {"email", "telegram", "both", "sms"}
Configs == [threshold : Thresholds, method : Methods, environ : CycleEnvirons]

\* what the SMTP server and the bot API do during one cycle
CycleSmtpWorlds == [session : {"ok"}, refused : {{}, {AddressBook[1]}}]
CycleTelegramWorlds == [failing : {{}, {ChatBook[1]}}]

\* what the web and the driver do during one cycle: the driver has no
\* matches(), and it fails, if it does, before the page loads, in the
\* gust_speed queries or in the fallback
CycleWebs ==
    {web \in FetchEnvs(PipelinePages) :
        ~web.matches_supported /\ web.direct_fail \in {"none", "gust_speed"}}

\* what the world does during one cycle: the web, the two channels, the file system
CycleEnvs ==
    [web : CycleWebs, smtp : CycleSmtpWorlds, telegram : CycleTelegramWorlds,
     save : {"ok", "fail"}]

\* what check_wind() can do in one cycle, evaluated once
CycleResults ==
    [cfg \in Configs, now \in 1..MaxCycles |->
        {check_wind(cfg, now, env) : env \in CycleEnvs}] @@ <<>>

Init ==
    /\ lib_fn = "none" /\ lib_in = None /\ lib_out = None
    /\ pc = "startup"
    /\ config \in Configs
    /\ clock = 0
    /\ last_check = NoFile
    /\ obs = NoObs
    /\ before = NoObs
    /\ aborted = None

Cycle_exclusive_create(r) ==
    /\ clock' = clock + 1
    /\ obs' = r
    /\ before' = IF obs = NoObs THEN NoObs
                 ELSE [repeat |-> r.web = obs.web, write |-> obs.write,
                       dispatched |-> obs.notification.calls # <<>>]
    /\ last_check' = IF r.write.written /\ last_check = NoFile THEN r.write.data
                     ELSE last_check
    /\ pc' = IF r.escaped THEN "crashed" ELSE "loop"
    /\ UNCHANGED <<lib_fn, lib_in, lib_out, config, aborted>>

Cycle_notify_once(r) ==
    /\ clock' = clock + 1
    /\ obs' = IF obs # NoObs /\ obs.notification.calls # <<>>
              THEN [r EXCEPT !.notification = NotCalled]
              ELSE r
    /\ before' = IF obs = NoObs THEN NoObs
                 ELSE [repeat |-> r.web = obs.web, write |-> obs.write,
                       dispatched |-> obs.notification.calls # <<>>]
    /\ last_check' = IF r.write.written THEN r.write.data ELSE last_check
    /\ pc' = IF r.escaped THEN "crashed" ELSE "loop"
    /\ UNCHANGED <<lib_fn, lib_in, lib_out, config, aborted>>

\* one call of check_wind() that returns: its effect on the file and on
\* run().  before keeps of the earlier call what it wrote and whether it
\* dispatched, and tells (repeat) whether this call met the same page and
\* the same driver behaviour.
Cycle(r) ==
    /\ clock' = clock + 1
    /\ obs' = r
    /\ before' = IF obs = NoObs THEN NoObs
                 ELSE [repeat |-> r.web = obs.web, write |-> obs.write,
                       dispatched |-> obs.notification.calls # <<>>]
    /\ last_check' = IF r.write.written THEN r.write.data ELSE last_check
    /\ pc' = IF r.escaped THEN "crashed" ELSE "loop"
    /\ UNCHANGED <<lib_fn, lib_in, lib_out, config, aborted>>

\* run(): "check_wind()" before the loop
RunStartup ==
    /\ pc = "startup"
    /\ clock < MaxCycles
    /\ \E r \in CycleResults[config, clock + 1] : Cycle(r)

\* run(): schedule.run_pending() with the job due
RunPending ==
    /\ pc = "loop"
    /\ clock < MaxCycles
    /\ \E r \in CycleResults[config, clock + 1] : Cycle(r)

\* run(): KeyboardInterrupt in the loop, between two cycles
Interrupt ==
    /\ pc = "loop"
    /\ pc' = "stopped"
    /\ UNCHANGED <<lib_fn, lib_in, lib_out, config, clock, last_check, obs, before, aborted>>

\* KeyboardInterrupt while check_wind() runs, which its "except Exception"
\* does not catch: inside get_wind_data() (at = "fetch"), inside
\* send_notification() (at = "dispatch", deliveries in flight), or after it,
\* before save_last_check() opens the file (at = "save").  The call does not
\* return and nothing is written.  The startup call is outside the try
\* statement of run(), so there the interrupt leaves run(); in the loop it is
\* caught by "except KeyboardInterrupt".
InterruptCheck ==
    /\ pc \in {"startup", "loop"}
    /\ clock < MaxCycles
    /\ \E at \in {"fetch", "dispatch", "save"} :
          \E notification \in
                IF at = "fetch" THEN {NotCalled}
                ELSE IF at = "dispatch"
                THEN {Pending : r \in {x \in CycleResults[config, clock + 1] :
                                         x.notification.calls # <<>>}}
                ELSE {r.notification : r \in {x \in CycleResults[config, clock + 1] :
                                                x.wind_speed # None /\ ~x.raised}} :
             aborted' = [cycle |-> clock + 1, startup |-> pc = "startup", at |-> at,
                         notification |-> notification]
    /\ pc' = IF pc = "startup" THEN "interrupted" ELSE "stopped"
    /\ UNCHANGED <<lib_fn, lib_in, lib_out, config, clock, last_check, obs, before>>

Next == RunStartup \/ RunPending \/ Interrupt \/ InterruptCheck

Spec == Init /\ [][Next]_vars

-----------------------------------------------------------------------------
(* Claims about the check cycle                                            *)

\* C1: in every cycle send_notification is called if and only if a wind
\* speed was obtained and it is at least WIND_THRESHOLD (inclusive), and it
\* is called with that speed, the gust and the threshold.
Thm_C1_DispatchIffAtThreshold ==
    clock > 0 =>
        /\ obs.notification.calls # <<>> <=>
              /\ obs.wind_speed # None
              /\ config.threshold * Pow10(obs.wind_speed.e) <= obs.wind_speed.m
        /\ obs.notification.calls # <<>> =>
              obs.notification.args = [wind_speed |-> obs.wind_speed,
                                       wind_gust |-> obs.wind_gust,
                                       threshold |-> config.threshold]

\* a speed equal to the threshold, 15 knots, is dispatched
Wit_C1_DispatchIffAtThreshold ==
    /\ clock > 0
    /\ config.threshold = 15
    /\ obs.wind_speed = DecOfInt(15)
    /\ obs.notification.calls # <<>>

\* C2: every cycle persists a LastCheckRecord: after any cycle the record on
\* disk was written by that cycle, with speed and gust null and
\* above_threshold false when the cycle obtained no data.
CE_C2_EveryCyclePersists ==
    clock > 0 =>
        /\ last_check # NoFile
        /\ last_check.timestamp = clock
        /\ obs.wind_speed = None =>
              /\ last_check.wind_speed = None
              /\ last_check.wind_gust = None
              /\ last_check.above_threshold = FALSE

\* C3: when the driver cannot be created or the page cannot be loaded,
\* get_weather_data returns the empty mapping, get_wind_data returns
\* (None, None), and the cycle ends without data and without a channel call.
Thm_C3_FetchFailureNoData ==
    (clock > 0 /\ obs.fetch # "ok") =>
        /\ obs.weather_data = EmptyDict
        /\ obs.wind_speed = None /\ obs.wind_gust = None
        /\ obs.notification = NotCalled
        /\ ~obs.raised

Wit_C3_FetchFailureNoData ==
    /\ clock > 0
    /\ obs.fetch = "load_fail"
    /\ obs.wind_speed = None
    /\ obs.notification.calls = <<>>

\* a failure happened in the cycle: the fetch, a channel or the write failed
CycleFailed ==
    \/ obs.fetch # "ok"
    \/ \E k \in 1..Len(obs.notification.calls) : obs.notification.calls[k].outcome # "ok"
    \/ obs.saved /\ ~obs.write.written

\* C4: no failure inside a cycle leaves check_wind: run() is never ended by
\* one, and after a cycle with a failure the loop can run the next cycle.
Thm_C4_NoFailureEscapes ==
    /\ pc # "crashed"
    /\ clock > 0 => ~obs.escaped
    /\ (clock > 0 /\ CycleFailed /\ pc = "loop" /\ clock < MaxCycles) => ENABLED RunPending

\* the email channel raised in the startup cycle and the loop goes on
Wit_C4_NoFailureEscapes ==
    /\ clock = 1
    /\ obs.raised
    /\ pc = "loop"
    /\ ENABLED RunPending

\* a LastCheckRecord without the two fields that tell the time
Unstamped(data) ==
    [f \in DOMAIN data \ {"timestamp", "datetime"} |-> data[f]]

\* C15: two consecutive cycles against the same upstream page, under the
\* same configuration, that both write their record write records equal in
\* every field except timestamp and datetime.
Thm_C15_RecordIdempotent ==
    (clock > 1 /\ before.repeat /\ before.write.written /\ obs.write.written) =>
        /\ Unstamped(obs.write.data) = Unstamped(before.write.data)
        /\ last_check = obs.write.data

\* the page was fetched twice, both cycles wrote, and the stamps differ
Wit_C15_RecordIdempotent ==
    /\ clock = 2
    /\ before.repeat
    /\ before.write.written /\ obs.write.written
    /\ obs.write.data.wind_speed = DecOfInt(15)
    /\ obs.write.data.timestamp # before.write.data.timestamp

\* C16: every cycle whose wind speed is at least the threshold calls
\* send_notification, whether or not the cycle before it dispatched, and
\* whether or not that dispatch delivered anything.
Thm_C16_NoMemoryOfNotifications ==
    (/\ clock > 1
     /\ obs.wind_speed # None
     /\ IntLeqDec(config.threshold, obs.wind_speed)) =>
        /\ before.dispatched => obs.notification.calls # <<>>
        /\ ~before.dispatched => obs.notification.calls # <<>>
        /\ obs.notification.args.wind_speed = obs.wind_speed

\* high wind in two cycles running: the second one dispatches again
Wit_C16_NoMemoryOfNotifications ==
    /\ clock = 2
    /\ before.dispatched
    /\ before.repeat
    /\ obs.notification.calls # <<>>
    /\ obs.notification.ret

Thm_C30_RecordConsistent ==
    (clock > 0 /\ obs.write.written) =>
        /\ last_check = obs.write.data
        /\ last_check.wind_speed = obs.wind_speed
        /\ last_check.wind_gust = obs.wind_gust
        /\ last_check.threshold = config.threshold
        /\ last_check.above_threshold <=> obs.notification.calls # <<>>
        /\ last_check.above_threshold <=>
              IntLeqDec(last_check.threshold, last_check.wind_speed)
        /\ [beaufort |-> last_check.beaufort_scale, desc |-> last_check.wind_description]
              = get_wind_description(last_check.wind_speed)

\* 15 knots at threshold 15, both channels called and both failed: the
\* record says above_threshold
Wit_C30_RecordConsistent ==
    /\ clock > 0
    /\ obs.write.written
    /\ config.threshold = 15
    /\ last_check.wind_speed = DecOfInt(15)
    /\ last_check.above_threshold
    /\ Len(obs.notification.calls) = 2
    /\ \A k \in 1..Len(obs.notification.calls) : obs.notification.calls[k].outcome = "fail"

\* C20: an interrupt takes effect only between cycles: no call of
\* check_wind() is cut short by it, startup call or scheduled call, and no
\* exception leaves run() because of it.
CE_C20_CooperativeCancellation ==
    /\ aborted = None
    /\ pc # "interrupted"

-----------------------------------------------------------------------------
(* Library specification: each behaviour is one call of one library        *)
(* function on an argument drawn from a bounded set.                       *)

MaxChunks == 4
MaxMant == 20
MaxExp == 1
MaxSpeedTenths == 700
MaxRows == 3
MaxRecipients == 2

\* the pieces the argument texts of parse_wind_data are built from
ParseChunks ==
    { <<"7">>, <<"5">>, <<"0">>, <<".">>, <<",">>, <<" ">>, <<"W">>,
      T_mph, <<"K", "m", "/", "H">>, T_kts, T_knots }

RECURSIVE Flatten(_)
Flatten(cs) == IF cs = <<>> THEN <<>> ELSE Head(cs) \o Flatten(Tail(cs))

ParseTexts ==
    {Flatten(cs) : cs \in UNION {[1..n -> ParseChunks] : n \in 0..MaxChunks}}

\* the unit arguments of convert_to_knots
ConvertUnits ==
    { T_knots, T_kts, T_kt, T_kmh, T_kph, T_mph, T_ms,
      <<"K", "T", "S">>, <<"M", "p", "h">>, <<"K", "m", "/", "H">>,
      <<"b", "f", "t">>, <<"k", "n">>, <<"m", "/", "s", " ">>, <<>> }

ConvertValues == {Dec(m, e) : m \in 0..MaxMant, e \in 0..MaxExp}

\* the speeds given to get_wind_description: 0.0, 0.1, ... knots
BeaufortSpeeds == {Dec(m, 1) : m \in 0..MaxSpeedTenths}

\* pairs of speeds a <= b, in half knots
BeaufortPairs ==
    {p \in [a : {Dec(5 * m, 1) : m \in 0..(MaxSpeedTenths \div 5)},
            b : {Dec(5 * m, 1) : m \in 0..(MaxSpeedTenths \div 5)}] : DecLeq(p.a, p.b)}

\* the rows the pages given to extract_element_by_label are built from
LabelRows ==
    { [label |-> S_WindSpeed, value |-> <<"1", "2", " ", "m", "p", "h">>],
      [label |-> S_WindSpeed, value |-> <<"-", "-">>],
      [label |-> S_WindSpeed, value |-> <<" ">>],
      [label |-> S_CurrentWind, value |-> <<" ", "9", " ", "k", "t", "s">>],
      [label |-> S_Wind, value |-> <<"2", "0", " ", "k", "m", "/", "h">>],
      [label |-> S_WindGust, value |-> <<"3", "0", " ", "k", "m", "/", "h">>],
      [label |-> S_Gust, value |-> <<"5", ".", "5", " ", "m", "p", "h">>],
      [label |-> <<"V", "e", "n", "t">>, value |-> <<"7", " ", "k", "t", "s">>],
      [label |-> <<"w", "i", "n", "d", " ", "g", "u", "s", "t">>, value |-> <<"2", "5", " ", "k", "t", "s">>] }

LabelPages == UNION {[1..n -> LabelRows] : n \in 0..MaxRows}

\* the driver of one extract_element_by_label call
LabelEnvs ==
    [fetch : {"ok"}, page : LabelPages, direct_fail : {"none"},
     matches_supported : BOOLEAN, fallback_fail : {FALSE}]

\* the rows the pages given to fallback_extraction are built from: readings
\* with and without a keyword in their text node, a temperature, a direction
FallbackRows ==
    { [label |-> <<"V", "e", "n", "t">>, value |-> <<"1", "2", " ", "k", "m", "/", "h">>],
      [label |-> <<"g", "u", "s", "t", " ", "3", "0", " ", "k", "m", "/", "h">>, value |-> <<>>],
      [label |-> <<"R", "a", "f", "a", "l", "e", " ", "2", "5", " ", "k", "t", "s">>, value |-> <<>>],
      [label |-> <<"w", "i", "n", "d", " ", "s", "p", "e", "e", "d", ":">>,
       value |-> <<"9", ",", "5", " ", "m", "p", "h">>],
      [label |-> <<"w", "i", "n", "d", " ", "s", "p", "e", "e", "d", " ", "8", " ", "k", "t", "s">>,
       value |-> <<>>],
      [label |-> <<"T", "e", "m", "p">>, value |-> <<"2", "1", " ", "°", "C">>],
      [label |-> <<"f", "r", "o", "m">>, value |-> <<"N", "E">>],
      [label |-> <<"G", "u", "s", "t", "s">>, value |-> <<"-", "-">>] }

FallbackPages == UNION {[1..n -> FallbackRows] : n \in 0..MaxRows}

\* the driver of one fallback_extraction call
FallbackEnvs ==
    [fetch : {"ok"}, page : FallbackPages, direct_fail : {"none"},
     matches_supported : {FALSE}, fallback_fail : {FALSE}]

\* the mappings direct targeting may have left when fallback_extraction is
\* called: at least one of wind_speed and gust_speed is missing
FallbackDicts ==
    { EmptyDict,
      [k \in {"wind_direction"} |-> <<"S", "W">>],
      [k \in {"gust_speed"} |-> <<"4", "0", " ", "k", "m", "/", "h">>] }

\* a wind_speed text direct targeting may have found
DirectWindText == <<"1", "9", " ", "m", "p", "h">>

\* the process environments of the channel calls: each variable set or not,
\* SMTP_PORT a number or not, up to MaxRecipients recipients and chat ids
Environs ==
    [SMTP_SERVER : {None, Str("smtp.example.org")},
     SMTP_PORT : {<<"5", "8", "7">>, <<"a", "b", "c">>},
     SMTP_USERNAME : {None, Str("user")},
     SMTP_PASSWORD : {Str("secret")},
     SENDER_EMAIL : {None, Str("port@example.org")},
     RECIPIENT_EMAIL : {SubSeq(AddressBook, 1, n) : n \in 0..MaxRecipients},
     TELEGRAM_BOT_TOKEN : {None, Str("token")},
     TELEGRAM_CHAT_ID : {SubSeq(ChatBook, 1, n) : n \in 0..MaxRecipients}]

\* what the SMTP server does during one channel call: the session opens or
\* the connection or the login fails, and some recipients are refused
SmtpWorlds ==
    [session : {"ok", "connect_fail", "login_fail"},
     refused : SUBSET {AddressBook[k] : k \in 1..MaxRecipients}]

\* what the bot API does during one channel call
TelegramWorlds == [failing : SUBSET {ChatBook[k] : k \in 1..MaxRecipients}]

\* the calls of main.send_notification: method, environment, and the worlds
\* of the two channels (one refused recipient, one failing chat at most)
SendInputs ==
    [cfg : [threshold : {15}, method : Methods, environ : Environs],
     wind : {[wind_speed |-> DecOfInt(15), wind_gust |-> None],
             [wind_speed |-> Dec(165, 1), wind_gust |-> DecOfInt(30)]},
     smtp : [session : {"ok", "login_fail"}, refused : {{}, {AddressBook[1]}}],
     telegram : [failing : {{}, {ChatBook[1]}}]]

\* the mappings get_weather_data may hand check_wind: each of wind_speed and
\* gust_speed absent or one of a few readings around the thresholds
CheckDicts ==
    {[k \in keys |-> IF k = "wind_speed" THEN ws ELSE gs] :
        keys \in SUBSET {"wind_speed", "gust_speed"},
        ws \in {<<"1", "4", ".", "9", "9", " ", "k", "n", "o", "t", "s">>,
                <<"1", "5", " ", "k", "t", "s">>,
                <<"1", "9", " ", "m", "p", "h">>},
        gs \in {<<"3", "0", " ", "k", "m", "/", "h">>,
                <<"1", "7", ",", "3", " ", "k", "m", "/", "h">>}}

\* the cycles check_wind is run in on its own: any configuration, any
\* behaviour of the channels and of the file system, an empty page behind
CheckInputs ==
    [cfg : Configs, weather_data : CheckDicts,
     env : {e \in CycleEnvs : e.web.fetch = "ok" /\ e.web.page = <<>>
                              /\ e.web.direct_fail = "none" /\ ~e.web.fallback_fail}]

\* the other variables while a library function is called on its own

PipelineIdle ==
    /\ pc = "idle"
    /\ config = NoConfig
    /\ clock = 0
    /\ last_check = NoFile
    /\ obs = NoObs
    /\ before = NoObs
    /\ aborted = None

PipelineUnchanged == UNCHANGED <<pc, config, clock, last_check, obs, before, aborted>>

InitLib ==
    /\ PipelineIdle
    /\ lib_out = Pending
    /\ \/ lib_fn = "parse_wind_data" /\ lib_in \in ParseTexts
       \/ /\ lib_fn = "convert_to_knots"
          /\ lib_in \in [value : ConvertValues, other : ConvertValues, unit : ConvertUnits]
       \/ lib_fn = "get_wind_description" /\ lib_in \in BeaufortSpeeds
       \/ lib_fn = "get_wind_description, twice" /\ lib_in \in BeaufortPairs
       \/ /\ lib_fn = "extract_element_by_label"
          /\ lib_in \in [env : LabelEnvs, key : {"wind_speed", "gust_speed"}]
       \/ lib_fn = "get_weather_data" /\ lib_in \in FetchEnvs(PipelinePages)
       \/ /\ lib_fn = "fallback_extraction"
          /\ lib_in \in [env : FallbackEnvs, weather_data : FallbackDicts]
       \/ /\ lib_fn \in {"send_simple_smtp_notification", "send_email_notification"}
          /\ lib_in \in [environ : Environs, world : SmtpWorlds]
       \/ /\ lib_fn = "send_telegram_notification"
          /\ lib_in \in [environ : Environs, world : TelegramWorlds]
       \/ lib_fn = "send_notification" /\ lib_in \in SendInputs
       \/ lib_fn = "check_wind" /\ lib_in \in CheckInputs

CallParse ==
    /\ lib_fn = "parse_wind_data" /\ lib_out = Pending
    /\ lib_out' = parse_wind_data(lib_in)
    /\ UNCHANGED <<lib_fn, lib_in>>
    /\ PipelineUnchanged

\* convert_to_knots on value, on other and on their sum, with the same unit
CallConvert ==
    /\ lib_fn = "convert_to_knots" /\ lib_out = Pending
    /\ lib_out' = [ret |-> convert_to_knots(lib_in.value, lib_in.unit),
                   ret_other |-> convert_to_knots(lib_in.other, lib_in.unit),
                   ret_sum |-> convert_to_knots(DecAdd(lib_in.value, lib_in.other),
                                                lib_in.unit)]
    /\ UNCHANGED <<lib_fn, lib_in>>
    /\ PipelineUnchanged

CallBeaufort ==
    /\ lib_fn = "get_wind_description" /\ lib_out = Pending
    /\ lib_out' = get_wind_description(lib_in)
    /\ UNCHANGED <<lib_fn, lib_in>>
    /\ PipelineUnchanged

\* get_wind_description on a speed and on a speed that is not smaller
CallBeaufortTwice ==
    /\ lib_fn = "get_wind_description, twice" /\ lib_out = Pending
    /\ lib_out' = [of_a |-> get_wind_description(lib_in.a),
                   of_b |-> get_wind_description(lib_in.b)]
    /\ UNCHANGED <<lib_fn, lib_in>>
    /\ PipelineUnchanged

\* extract_element_by_label on an empty dictionary, with the label list
\* get_weather_data passes for the key
CallExtract ==
    /\ lib_fn = "extract_element_by_label" /\ lib_out = Pending
    /\ lib_out' = extract_element_by_label(lib_in.env, EmptyDict, lib_in.key,
                                           LabelsOf(lib_in.key))
    /\ UNCHANGED <<lib_fn, lib_in>>
    /\ PipelineUnchanged

\* get_weather_data(), with what it did on the way: direct is the dictionary
\* as the DIRECT TARGETING block left it (None when no page was loaded),
\* fallback tells whether fallback_extraction was called
CallWeather ==
    /\ lib_fn = "get_weather_data" /\ lib_out = Pending
    /\ lib_out' = Only({[ret |-> get_weather_data(lib_in),
                         direct |-> direct,
                         fallback |-> direct # None /\ NeedsFallback(direct)] :
                           direct \in {IF lib_in.fetch = "ok" THEN DirectTargeting(lib_in)
                                       ELSE None}})
    /\ UNCHANGED <<lib_fn, lib_in>>
    /\ PipelineUnchanged

\* fallback_extraction on the page with the mapping weather_data, and on the
\* same page with the mapping that also holds a wind_speed
CallFallback ==
    /\ lib_fn = "fallback_extraction" /\ lib_out = Pending
    /\ lib_out' = [ret |-> fallback_extraction(lib_in.env, lib_in.weather_data),
                   ret_with_wind |->
                       fallback_extraction(lib_in.env,
                           Put(lib_in.weather_data, "wind_speed", DirectWindText))]
    /\ UNCHANGED <<lib_fn, lib_in>>
    /\ PipelineUnchanged

\* send_simple_smtp_notification(), with the notifier it constructed
CallSimpleSmtp ==
    /\ lib_fn = "send_simple_smtp_notification" /\ lib_out = Pending
    /\ lib_out' = [ret |-> send_simple_smtp_notification(lib_in.environ, lib_in.world),
                   notifier |-> SimpleSmtpNotifier(lib_in.environ)]
    /\ UNCHANGED <<lib_fn, lib_in>>
    /\ PipelineUnchanged

\* send_email_notification(), with the notifier it constructed
CallEmail ==
    /\ lib_fn = "send_email_notification" /\ lib_out = Pending
    /\ lib_out' = [ret |-> send_email_notification(lib_in.environ, lib_in.world),
                   notifier |-> EmailNotifier(lib_in.environ)]
    /\ UNCHANGED <<lib_fn, lib_in>>
    /\ PipelineUnchanged

\* send_telegram_notification(), with the notifier it constructed
CallTelegram ==
    /\ lib_fn = "send_telegram_notification" /\ lib_out = Pending
    /\ lib_out' = [ret |-> send_telegram_notification(lib_in.environ, lib_in.world),
                   notifier |-> TelegramNotifier(lib_in.environ)]
    /\ UNCHANGED <<lib_fn, lib_in>>
    /\ PipelineUnchanged

\* main.send_notification(wind_speed, wind_gust) under the method of cfg, and
\* the same call with NOTIFICATION_METHOD = email
CallSend ==
    /\ lib_fn = "send_notification" /\ lib_out = Pending
    /\ lib_out' = [ret |-> send_notification(lib_in.cfg, lib_in.wind.wind_speed,
                                            lib_in.wind.wind_gust, lib_in),
                   as_email |-> send_notification([lib_in.cfg EXCEPT !.method = "email"],
                                                 lib_in.wind.wind_speed,
                                                 lib_in.wind.wind_gust, lib_in)]
    /\ UNCHANGED <<lib_fn, lib_in>>
    /\ PipelineUnchanged

\* check_wind() at time 1, get_weather_data() returning lib_in.weather_data
CallCheck ==
    /\ lib_fn = "check_wind" /\ lib_out = Pending
    /\ lib_out' = Only({CheckFetched(lib_in.cfg, 1, lib_in.env, lib_in.weather_data, w) :
                          w \in {NoneIfRaised(WindOf(lib_in.weather_data))}})
    /\ UNCHANGED <<lib_fn, lib_in>>
    /\ PipelineUnchanged

NextLib ==
    \/ CallParse \/ CallConvert \/ CallBeaufort \/ CallBeaufortTwice \/ CallExtract
    \/ CallWeather
    \/ CallFallback \/ CallSimpleSmtp \/ CallEmail \/ CallTelegram \/ CallSend
    \/ CallCheck

SpecLib == InitLib /\ [][NextLib]_vars

Returned(fn) == lib_fn = fn /\ lib_out # Pending

-----------------------------------------------------------------------------
(* Claims about the library                                                *)

\* the bands of the table whose closed interval holds the speed
BandsHolding(speed) ==
    {i \in 1..Len(beaufort_scale) :
        /\ beaufort_scale[i].lower * Pow10(speed.e) <= speed.m
        /\ beaufort_scale[i].inf \/ speed.m <= beaufort_scale[i].upper * Pow10(speed.e)}

\* C5: the 13 bands partition [0, infinity): every non-negative speed, whole
\* or fractional, lies in exactly one band, and get_wind_description returns
\* that band's index and description.
CE_C5_BandsPartition ==
    Returned("get_wind_description") =>
        /\ Cardinality(BandsHolding(lib_in)) = 1
        /\ \A i \in BandsHolding(lib_in) :
               lib_out = [beaufort |-> i - 1, desc |-> beaufort_scale[i].desc]

\* the speed is the whole number n
IsWhole(speed, n) == speed.m = n * Pow10(speed.e)

\* the speed is the listed lower bound, or the listed upper bound, of band i
IsLowerBound(speed, i) == IsWhole(speed, beaufort_scale[i].lower)
IsUpperBound(speed, i) == ~beaufort_scale[i].inf /\ IsWhole(speed, beaufort_scale[i].upper)

\* the first band in listed order that holds the speed is returned, by its
\* 0-based position; 1 knot is Calm; 64 knots and more are band 12
FirstMatchWins ==
    /\ BandsHolding(lib_in) # {} =>
          \E i \in BandsHolding(lib_in) :
              /\ \A h \in BandsHolding(lib_in) : i <= h
              /\ lib_out = [beaufort |-> i - 1, desc |-> beaufort_scale[i].desc]
    /\ IsWhole(lib_in, 1) => lib_out = [beaufort |-> 0, desc |-> "Calm"]
    /\ IntLeqDec(64, lib_in) => lib_out = [beaufort |-> 12, desc |-> "Hurricane force"]

\* C24 as stated: first match in listed order with inclusive bounds, 1 knot
\* is band 0, 64 and more is band 12, and each listed lower and upper bound
\* maps to its own band.
CE_C24_FirstMatchOwnBounds ==
    Returned("get_wind_description") =>
        /\ FirstMatchWins
        /\ \A i \in 1..Len(beaufort_scale) :
              (IsLowerBound(lib_in, i) \/ IsUpperBound(lib_in, i)) =>
                  lib_out.beaufort = i - 1

\* C24, amended: first match in listed order with inclusive bounds, 1 knot
\* is band 0, 64 and more is band 12; each listed upper bound maps to its own
\* band, and so does each listed lower bound except that of band 1, which is
\* the upper bound of band 0 and maps to band 0.
Thm_C24_FirstMatchOwnBounds ==
    Returned("get_wind_description") =>
        /\ FirstMatchWins
        /\ \A i \in 1..Len(beaufort_scale) :
              /\ IsUpperBound(lib_in, i) => lib_out.beaufort = i - 1
              /\ (IsLowerBound(lib_in, i) /\ i # 2) => lib_out.beaufort = i - 1
              /\ (IsLowerBound(lib_in, i) /\ i = 2) => lib_out.beaufort = 0

\* 1 knot, the bound bands 0 and 1 share, is classified Calm
Wit_C24_FirstMatchOwnBounds ==
    /\ Returned("get_wind_description")
    /\ IsLowerBound(lib_in, 2)
    /\ IsUpperBound(lib_in, 1)
    /\ lib_out = [beaufort |-> 0, desc |-> "Calm"]

\* C25: get_wind_description is monotonic: for speeds a <= b the Beaufort
\* number of a is at most the Beaufort number of b.
CE_C25_BeaufortMonotonic ==
    Returned("get_wind_description, twice") =>
        lib_out.of_a.beaufort <= lib_out.of_b.beaufort

\* on the speeds that lie in a band, the Beaufort number is monotonic
MonotonicInsideBands ==
    (/\ Returned("get_wind_description, twice")
     /\ BandsHolding(lib_in.a) # {}
     /\ BandsHolding(lib_in.b) # {}) =>
        lib_out.of_a.beaufort <= lib_out.of_b.beaufort

\* the conversion table as the specification states it
TableUnits == {T_knots, T_kmh, T_mph, T_ms}
TableFactor(unit) ==
    IF unit = T_knots THEN [m |-> 1, e |-> 0]
    ELSE IF unit = T_kmh THEN [m |-> 539957, e |-> 6]
    ELSE IF unit = T_mph THEN [m |-> 868976, e |-> 6]
    ELSE [m |-> 194384, e |-> 5]

\* C6: for a recognised unit convert_to_knots(v, unit) is v times the unit's
\* factor, hence additive and non-decreasing in v, and 1 knot converts to 1.
Thm_C6_ConvertLinear ==
    (Returned("convert_to_knots") /\ lib_in.unit \in TableUnits) =>
        /\ lib_out.ret = Dec(lib_in.value.m * TableFactor(lib_in.unit).m,
                             lib_in.value.e + TableFactor(lib_in.unit).e)
        /\ lib_out.ret_sum = DecAdd(lib_out.ret, lib_out.ret_other)
        /\ DecLeq(lib_in.value, lib_in.other) => DecLeq(lib_out.ret, lib_out.ret_other)
        /\ (lib_in.unit = T_knots /\ lib_in.value = DecOfInt(1)) => lib_out.ret = DecOfInt(1)

\* 19 mph and 0.5 mph: 16.510544, 0.434488 and their sum 16.945032 knots
Wit_C6_ConvertLinear ==
    /\ Returned("convert_to_knots")
    /\ lib_in = [value |-> DecOfInt(19), other |-> Dec(5, 1), unit |-> T_mph]
    /\ lib_out.ret = Dec(16510544, 6)
    /\ lib_out.ret_sum = Dec(16945032, 6)

\* the unit strings convert_to_knots recognises, after lower-casing
RecognisedUnits == {T_knots, T_kts, T_kt, T_kmh, T_kph, T_mph, T_ms}

\* C7: for a unit string that is not recognised, convert_to_knots returns the
\* value unchanged and does not raise.
Thm_C7_UnknownUnitPassThrough ==
    (Returned("convert_to_knots") /\ Lower(lib_in.unit) \notin RecognisedUnits) =>
        /\ ~IsRaised(lib_out.ret)
        /\ lib_out.ret = lib_in.value

Wit_C7_UnknownUnitPassThrough ==
    /\ Returned("convert_to_knots")
    /\ lib_in.unit = <<"b", "f", "t">>
    /\ lib_in.value = Dec(15, 1)
    /\ lib_out.ret = Dec(15, 1)

\* the text is a number: digits, or digits, one ',' or '.', digits
IsNumberText(t) ==
    /\ t # <<>>
    /\ IsDigit(t[1]) /\ IsDigit(t[Len(t)])
    /\ \A i \in 1..Len(t) : IsDigit(t[i]) \/ t[i] \in {",", "."}
    /\ Cardinality({i \in 1..Len(t) : ~IsDigit(t[i])}) <= 1

\* the value of a number text, ',' read as '.'
NumberValue(t) ==
    LET seps == {i \in 1..Len(t) : ~IsDigit(t[i])}
        digits == SelectSeq(t, IsDigit)
    IN  Dec(NatOfDigits(digits),
            IF seps = {} THEN 0 ELSE Len(t) - (CHOOSE i \in seps : TRUE))

\* the unit tokens found at position p or after white space only
UnitsFollowing(t, p) ==
    {u \in {T_mph, T_kmh, T_kts, T_knots} :
        \E q \in p..Len(t) :
            /\ \A k \in p..(q - 1) : IsSpace(t[k])
            /\ MatchAt(t, q, u)}

\* C8: parse_wind_data returns the first number of the text, with '.' or ','
\* as decimal separator, and the unit token that follows it, lower-cased;
\* the unit is "mph" when no unit token follows; a text without a digit,
\* the empty text included, gives (None, None).
Thm_C8_ParseFirstNumber ==
    Returned("parse_wind_data") =>
        LET t == lib_in
            digits == {i \in 1..Len(t) : IsDigit(t[i])}
        IN  IF digits = {} THEN lib_out.value = None /\ lib_out.unit = None
            ELSE LET i == CHOOSE d \in digits : \A h \in digits : d <= h
                     ends == {j \in i..Len(t) : IsNumberText(SubSeq(t, i, j))}
                     j == CHOOSE x \in ends : \A h \in ends : h <= x
                     units == UnitsFollowing(t, j + 1)
                 IN  /\ lib_out.value = NumberValue(SubSeq(t, i, j))
                     /\ lib_out.unit = Str(IF units = {} THEN T_mph
                                           ELSE CHOOSE u \in units : TRUE)
                     /\ Cardinality(units) <= 1

\* "7,5Km/H" gives (7.5, "km/h")
Wit_C8_ParseFirstNumber ==
    /\ Returned("parse_wind_data")
    /\ lib_in = <<"7", ",", "5", "K", "m", "/", "H">>
    /\ lib_out = [value |-> Dec(75, 1), unit |-> Str(T_kmh)]

\* the factor convert_to_knots applies to a unit parse_wind_data returns
ParsedUnitFactor(unit) ==
    IF unit \in {T_kts, T_knots} THEN [m |-> 1, e |-> 0]
    ELSE IF unit = T_kmh THEN KmhFactor
    ELSE MphFactor

\* C27: a unit parse_wind_data returns is mph, km/h, kts or knots, which
\* convert_to_knots converts with its table factor and never passes through
\* as unknown; the value parsed is not negative.  (The product is compared
\* for mantissas up to 2000, which keeps it within 32 bits.)
Thm_C27_ParsedUnitsConvert ==
    (Returned("parse_wind_data") /\ lib_out.value # None) =>
        /\ lib_out.unit.s \in {T_mph, T_kmh, T_kts, T_knots}
        /\ Lower(lib_out.unit.s) \in RecognisedUnits
        /\ lib_out.value.m >= 0
        /\ lib_out.value.m <= 2000 =>
              convert_to_knots(lib_out.value, lib_out.unit.s)
                 = Dec(lib_out.value.m * ParsedUnitFactor(lib_out.unit.s).m,
                       lib_out.value.e + ParsedUnitFactor(lib_out.unit.s).e)

\* "7.5", a number with no unit after it: (7.5, mph), converted as miles per hour
Wit_C27_ParsedUnitsConvert ==
    /\ Returned("parse_wind_data")
    /\ lib_in = <<"7", ".", "5">>
    /\ lib_out = [value |-> Dec(75, 1), unit |-> Str(T_mph)]
    /\ convert_to_knots(lib_out.value, lib_out.unit.s) = Dec(6517320, 6)

\* a text extract_element_by_label stores: stripped, not empty, validating
Accepted(text) == text # <<>> /\ text = Strip(text) /\ Validates(text)

\* C26: on a text the extraction accepts, parse_wind_data returns the value
\* and the unit of the 'number unit' substring that satisfied the
\* validating pattern.
CE_C26_ParseAgreesWithValidation ==
    (Returned("parse_wind_data") /\ Accepted(lib_in)) =>
        \A mt \in {NumUnitSearch(lib_in, FALSE)} :
            /\ lib_out.value = FloatOf(ReplaceComma(mt.group1))
            /\ lib_out.unit = Str(Lower(mt.group2))

\* the two agree on the accepted texts whose first digit starts the
\* validating match
ParseAgreesOnLeadingReading ==
    (/\ Returned("parse_wind_data")
     /\ Accepted(lib_in)
     /\ \A i \in 1..Len(lib_in) :
           IsDigit(lib_in[i]) => NumUnitSearch(lib_in, FALSE).start <= i) =>
        \A mt \in {NumUnitSearch(lib_in, FALSE)} :
            /\ lib_out.value = FloatOf(ReplaceComma(mt.group1))
            /\ lib_out.unit = Str(Lower(mt.group2))

\* the rows of the page that follow label and hold a non-empty text matching
\* the validating pattern
ValidCandidates(page, label) ==
    {i \in 1..Len(page) :
        /\ Contains(page[i].label, label)
        /\ Strip(page[i].value) # <<>>
        /\ Validates(Strip(page[i].value))}

\* the labels of the list that have such a candidate
LabelsWithCandidate(page, labels) ==
    {k \in 1..Len(labels) : ValidCandidates(page, labels[k]) # {}}

\* C10: in the label-adjacency lookup the labels are tried in their listed
\* order and the candidates of one label in document order; the value stored
\* is the text of the first non-empty validating candidate of the first label
\* that has one, never that of a lower-priority label.
Thm_C10_LabelPriority ==
    Returned("extract_element_by_label") =>
        LET page == lib_in.env.page
            labels == LabelsOf(lib_in.key)
            ks == LabelsWithCandidate(page, labels)
        IN  ks # {} =>
              LET k == CHOOSE x \in ks : \A y \in ks : x <= y
                  cs == ValidCandidates(page, labels[k])
                  i == CHOOSE x \in cs : \A y \in cs : x <= y
              IN  /\ lib_out.ret
                  /\ lib_out.data = [x \in {lib_in.key} |-> Strip(page[i].value)]

\* "Wind" 20 km/h precedes "Current Wind" 9 kts, itself preceded by an empty
\* "Wind Speed" candidate: "Current Wind" is the higher-priority label with
\* a validating candidate, and its text is stored
Wit_C10_LabelPriority ==
    /\ Returned("extract_element_by_label")
    /\ lib_in.key = "wind_speed"
    /\ lib_in.env.page =
          << [label |-> S_WindSpeed, value |-> <<" ">>],
             [label |-> S_Wind, value |-> <<"2", "0", " ", "k", "m", "/", "h">>],
             [label |-> S_CurrentWind, value |-> <<" ", "9", " ", "k", "t", "s">>] >>
    /\ lib_out.ret
    /\ lib_out.data["wind_speed"] = <<"9", " ", "k", "t", "s">>

WeatherKeys == {"wind_speed", "gust_speed", "wind_direction", "temperature"}

\* C9: get_weather_data never raises: whatever step fails, it returns a
\* mapping from field names to texts, and the empty mapping when the driver
\* cannot be created, the page cannot be loaded or the fallback extraction
\* fails.
Thm_C9_WeatherNeverRaises ==
    Returned("get_weather_data") =>
        /\ ~IsRaised(lib_out.ret)
        /\ DOMAIN lib_out.ret \subseteq WeatherKeys
        /\ lib_in.fetch # "ok" => lib_out.ret = EmptyDict
        /\ lib_in.fallback_fail => (lib_out.ret = EmptyDict \/ ~NeedsFallback(lib_out.ret))

\* the page has a wind speed only, so the fallback extraction runs, and
\* writing the debug file fails: the empty mapping is returned
Wit_C9_WeatherNeverRaises ==
    /\ Returned("get_weather_data")
    /\ lib_in.fetch = "ok" /\ lib_in.fallback_fail /\ lib_in.direct_fail = "none"
    /\ lib_in.page = <<[label |-> S_WindSpeed, value |-> <<"1", "9", " ", "m", "p", "h">>]>>
    /\ lib_out.ret = EmptyDict

\* C11: in a fetch whose page was loaded, fallback_extraction is called if
\* and only if wind_speed or gust_speed is missing from the mapping direct
\* targeting left; when both are present the mapping returned is that one.
Thm_C11_FallbackIffSpeedMissing ==
    (Returned("get_weather_data") /\ lib_in.fetch = "ok") =>
        /\ lib_out.fallback <=>
              ("wind_speed" \notin DOMAIN lib_out.direct
                 \/ "gust_speed" \notin DOMAIN lib_out.direct)
        /\ ({"wind_speed", "gust_speed"} \subseteq DOMAIN lib_out.direct) =>
              lib_out.ret = lib_out.direct

\* the wind speed is found by its label, the gust is not: the fallback runs
\* and adds the gust it finds in the text nodes
Wit_C11_FallbackIffSpeedMissing ==
    /\ Returned("get_weather_data")
    /\ lib_in.fetch = "ok" /\ ~lib_in.fallback_fail /\ lib_in.direct_fail = "none"
    /\ lib_in.page = <<[label |-> S_WindSpeed, value |-> <<"1", "9", " ", "m", "p", "h">>]>>
    /\ DOMAIN lib_out.direct = {"wind_speed"}
    /\ lib_out.fallback
    /\ lib_out.ret # lib_out.direct

\* the reading a text holds: its first number and unit
Reading(text) == parse_wind_data(text)

\* the text node holds a keyword of the field itself: "wind speed" for
\* wind_speed, "gust" or "rafale" for gust_speed
FieldKeywordIn(node, key) ==
    IF key = "wind_speed"
    THEN \E i \in 1..Len(node) :
            /\ MatchAt(node, i, K_wind)
            /\ SpaceEnd(node, i + Len(K_wind)) > i + Len(K_wind)
            /\ MatchAt(node, SpaceEnd(node, i + Len(K_wind)), K_speed)
    ELSE ContainsCI(node, K_gust) \/ ContainsCI(node, K_rafale)

\* the readings of the text nodes that hold a keyword of the field
KeywordNodeReadings(page, key) ==
    {Reading(Strip(TextNodes(page)[k])) :
        k \in {x \in 1..Len(TextNodes(page)) :
                 /\ FieldKeywordIn(TextNodes(page)[x], key)
                 /\ Validates(Strip(TextNodes(page)[x]))}}

\* the readings the context regex (label ... number unit) finds in the flat text
ContextReadings(page, key) ==
    {[value |-> FloatOf(ReplaceComma(ContextAt(JoinLines(TextNodes(page)), i, key).group1)),
      unit |-> Str(Lower(ContextAt(JoinLines(TextNodes(page)), i, key).group2))] :
        i \in {x \in 1..Len(JoinLines(TextNodes(page))) :
                 ContextAt(JoinLines(TextNodes(page)), x, key) # None}}

\* C12: in the fallback the narrowing is ordered context-qualified before
\* context-free: when the page offers a context-qualified reading for a field
\* (a validating text node holding a keyword of the field, or a match of the
\* context regex), the value accepted for the field is such a reading, never
\* a bare "number unit" found elsewhere.
CE_C12_ContextBeforeContextFree ==
    Returned("fallback_extraction") =>
        \A key \in {"wind_speed", "gust_speed"} :
            (/\ key \notin DOMAIN lib_in.weather_data
             /\ KeywordNodeReadings(lib_in.env.page, key)
                  \cup ContextReadings(lib_in.env.page, key) # {}) =>
                /\ key \in DOMAIN lib_out.ret
                /\ Reading(lib_out.ret[key]) \in
                       KeywordNodeReadings(lib_in.env.page, key)
                         \cup ContextReadings(lib_in.env.page, key)

\* a number next to a degree sign occurs in the text
HasDegreeNumber(t) ==
    \E i \in 1..Len(t) :
        /\ IsDigit(t[i])
        /\ SpaceEnd(t, NumEnd(t, i)) <= Len(t)
        /\ t[SpaceEnd(t, NumEnd(t, i))] = "°"

\* C13: when the fallback runs, a wind_direction still missing is searched in
\* the flat text by compass abbreviation or direction word, and a temperature
\* still missing by a number next to a degree sign: a page whose flat text
\* holds such a temperature yields a temperature key.
CE_C13_LastResortDirectionTemperature ==
    Returned("fallback_extraction") =>
        /\ ("wind_direction" \notin DOMAIN lib_in.weather_data
              /\ DirectionSearch(JoinLines(TextNodes(lib_in.env.page))) # <<>>) =>
              /\ "wind_direction" \in DOMAIN lib_out.ret
              /\ <<lib_out.ret["wind_direction"]>> =
                     DirectionSearch(JoinLines(TextNodes(lib_in.env.page)))
        /\ ("temperature" \notin DOMAIN lib_in.weather_data
              /\ HasDegreeNumber(JoinLines(TextNodes(lib_in.env.page)))) =>
              "temperature" \in DOMAIN lib_out.ret

\* the text "gust 30 km/h"
GustReadingText == <<"g", "u", "s", "t", " ", "3", "0", " ", "k", "m", "/", "h">>

\* C14: when gust_speed is missing after label lookup and the flat text holds
\* the gust reading "gust 30 km/h" (and no other gust reading), the fallback
\* stores that reading as gust_speed (30 km/h, 16.19871 knots), and stores
\* the same gust_speed whether or not wind_speed was already in the mapping.
CE_C14_GustFromFlatText ==
    (/\ Returned("fallback_extraction")
     /\ "gust_speed" \notin DOMAIN lib_in.weather_data
     /\ Contains(JoinLines(TextNodes(lib_in.env.page)), GustReadingText)
     /\ KeywordNodeReadings(lib_in.env.page, "gust_speed")
           \cup ContextReadings(lib_in.env.page, "gust_speed")
          = {[value |-> DecOfInt(30), unit |-> Str(T_kmh)]}) =>
        /\ "gust_speed" \in DOMAIN lib_out.ret
        /\ Reading(lib_out.ret["gust_speed"]) = [value |-> DecOfInt(30), unit |-> Str(T_kmh)]
        /\ KnotsAt(lib_out.ret, "gust_speed") = Dec(1619871, 5)
        /\ "gust_speed" \in DOMAIN lib_out.ret_with_wind
        /\ lib_out.ret_with_wind["gust_speed"] = lib_out.ret["gust_speed"]

\* the part of C14 that holds on every page: fallback_extraction leaves the
\* same gust_speed whether or not wind_speed was already in the mapping
GustIndependentOfWind ==
    Returned("fallback_extraction") =>
        /\ ("gust_speed" \in DOMAIN lib_out.ret) = ("gust_speed" \in DOMAIN lib_out.ret_with_wind)
        /\ "gust_speed" \in DOMAIN lib_out.ret =>
              lib_out.ret_with_wind["gust_speed"] = lib_out.ret["gust_speed"]

-----------------------------------------------------------------------------
(* Claims about the notification channels                                  *)

\* the attempts address the entries of the list, each once, in list order
InConfiguredOrder(attempts, entries) ==
    /\ Len(attempts) = Len(entries)
    /\ \A k \in 1..Len(entries) : attempts[k].to = entries[k]

\* a channel call that got as far as its delivery loop: the notifier is
\* configured and, for SMTP, the session is open
ReachedLoop ==
    /\ lib_fn \in {"send_simple_smtp_notification", "send_email_notification",
                   "send_telegram_notification"}
    /\ lib_out # Pending
    /\ ~IsRaised(lib_out.notifier)
    /\ lib_out.notifier.is_configured
    /\ lib_fn # "send_telegram_notification" => lib_in.world.session = "ok"

CE_C17_BothChannelsAttempted ==
    (Returned("send_notification") /\ lib_in.cfg.method = "both") =>
        /\ Len(lib_out.ret.calls) = 2
        /\ lib_out.ret.calls[1].channel = "simple_smtp"
        /\ lib_out.ret.calls[2].channel = "telegram"
        /\ lib_out.ret.calls[1] = lib_out.as_email.calls[1]

\* with both, a simple_smtp call that returns, True or False, is followed
\* by the Telegram call
TelegramAfterEmailReturns ==
    (/\ Returned("send_notification")
     /\ lib_in.cfg.method = "both"
     /\ lib_out.ret.calls[1].outcome # "raise") =>
        /\ Len(lib_out.ret.calls) = 2
        /\ lib_out.ret.calls[2].channel = "telegram"
        /\ lib_out.ret.calls[1] = lib_out.as_email.calls[1]

\* C19: with a NOTIFICATION_METHOD other than email, telegram, both,
\* send_notification attempts the deliveries, and returns the result, of the
\* call with method email, and makes no Telegram call.
CE_C19_UnknownMethodAsEmail ==
    (Returned("send_notification")
        /\ lib_in.cfg.method \notin {"email", "telegram", "both"}) =>
        /\ \A k \in 1..Len(lib_out.ret.calls) : lib_out.ret.calls[k].channel # "telegram"
        /\ Len(lib_out.ret.calls) = Len(lib_out.as_email.calls)
        /\ \A k \in 1..Len(lib_out.ret.calls) :
               /\ lib_out.ret.calls[k].attempts = lib_out.as_email.calls[k].attempts
               /\ lib_out.ret.calls[k].outcome = lib_out.as_email.calls[k].outcome
        /\ lib_out.ret.ret = lib_out.as_email.ret
        /\ lib_out.ret.raised = lib_out.as_email.raised

\* with an unknown method no Telegram call is made and the one call made
\* is send_email_notification
UnknownMethodNoTelegram ==
    (Returned("send_notification")
        /\ lib_in.cfg.method \notin {"email", "telegram", "both"}) =>
        /\ Len(lib_out.ret.calls) = 1
        /\ lib_out.ret.calls[1].channel = "email"

\* C22: EmailNotifier is valid only when SMTP server, user name, password,
\* sender and at least one recipient address are configured; with
\* RECIPIENT_EMAIL unset it is not valid and send_email_notification returns
\* False without a delivery attempted.
CE_C22_EmailValidNeedsRecipient ==
    (Returned("send_email_notification") /\ ~IsRaised(lib_out.notifier)) =>
        /\ lib_out.notifier.is_configured =>
              /\ lib_in.environ.SMTP_SERVER # None
              /\ lib_in.environ.SMTP_USERNAME # None
              /\ lib_in.environ.SMTP_PASSWORD # None
              /\ lib_in.environ.SENDER_EMAIL # None
              /\ lib_in.environ.RECIPIENT_EMAIL # <<>>
        /\ lib_in.environ.RECIPIENT_EMAIL = <<>> =>
              /\ ~lib_out.notifier.is_configured
              /\ lib_out.ret = NotSent

\* the four other settings are required: without one of them the notifier
\* is not valid and nothing is sent
EmailValidNeedsAccount ==
    (Returned("send_email_notification") /\ ~IsRaised(lib_out.notifier)) =>
        ((\/ lib_in.environ.SMTP_SERVER = None
          \/ lib_in.environ.SMTP_USERNAME = None
          \/ lib_in.environ.SENDER_EMAIL = None) =>
            /\ ~lib_out.notifier.is_configured
            /\ lib_out.ret = NotSent)

\* the label search of extract_element_by_label found nothing on the page
LabelSearchEmpty ==
    \A k \in 1..Len(LabelsOf(lib_in.key)) :
        ValidCandidates(lib_in.env.page, LabelsOf(lib_in.key)[k]) = {}

\* the rows of the page one of whose two nodes has the stripped text, and
\* whose own text holds a label synonym of the key, case ignored
RowsVouching(page, key, text) ==
    {i \in 1..Len(page) :
        /\ text \in {Strip(page[i].label), Strip(page[i].value)}
        /\ \E k \in 1..Len(LabelsOf(key)) :
              ContainsCI(page[i].label \o <<"\n">> \o page[i].value,
                         Lower(LabelsOf(key)[k]))}

\* C23: a value the value-pattern lookup stores is the text of a node whose
\* parent's text contains a label synonym of the field, case ignored; when
\* the value query fails the lookup returns False and the mapping is as it was.
Thm_C23_ValueLookupParentCheck ==
    (Returned("extract_element_by_label") /\ LabelSearchEmpty) =>
        /\ lib_out.ret =>
              /\ lib_in.env.matches_supported
              /\ RowsVouching(lib_in.env.page, lib_in.key, lib_out.data[lib_in.key]) # {}
        /\ ~lib_in.env.matches_supported =>
              /\ ~lib_out.ret
              /\ lib_out.data = EmptyDict

\* "7 kts" under "Vent" comes first and is passed over; "25 kts" under
\* "wind gust", which no label query finds, is stored as gust_speed
Wit_C23_ValueLookupParentCheck ==
    /\ Returned("extract_element_by_label")
    /\ LabelSearchEmpty
    /\ lib_in.key = "gust_speed"
    /\ lib_in.env.matches_supported
    /\ Len(lib_in.env.page) = 2
    /\ lib_in.env.page[1].value = <<"7", " ", "k", "t", "s">>
    /\ lib_out.ret
    /\ lib_out.data["gust_speed"] = <<"2", "5", " ", "k", "t", "s">>

-----------------------------------------------------------------------------
(* Claims about check_wind on the mapping it is handed                     *)

\* C28: the decision to notify looks at the wind speed only: with the gust
\* at or above the threshold and the wind speed below it, or missing,
\* send_notification is not called; when it is called and no gust was
\* extracted, the gust argument is None.
Thm_C28_DecisionOnSpeedOnly ==
    Returned("check_wind") =>
        /\ lib_out.notification.calls # <<>> <=>
              /\ lib_out.wind_speed # None
              /\ IntLeqDec(lib_in.cfg.threshold, lib_out.wind_speed)
        /\ (/\ lib_out.wind_gust # None
            /\ IntLeqDec(lib_in.cfg.threshold, lib_out.wind_gust)
            /\ \/ lib_out.wind_speed = None
               \/ ~IntLeqDec(lib_in.cfg.threshold, lib_out.wind_speed)) =>
              lib_out.notification = NotCalled
        /\ (lib_out.notification.calls # <<>> /\ ~Has(lib_in.weather_data, "gust_speed")) =>
              /\ lib_out.wind_gust = None
              /\ lib_out.notification.args.wind_gust = None

\* a gust of 30 km/h, 16.2 knots, over a threshold of 15 and no wind speed:
\* no notification
Wit_C28_DecisionOnSpeedOnly ==
    /\ Returned("check_wind")
    /\ lib_in.cfg.threshold = 15
    /\ ~Has(lib_in.weather_data, "wind_speed")
    /\ lib_out.wind_gust = Dec(1619871, 5)
    /\ lib_out.wind_speed = None
    /\ lib_out.notification = NotCalled

\* C29: the message an email notifier transmits to a recipient carries one
\* To header, naming that recipient and no recipient handled before.
CE_C29_OneToHeader ==
    (ReachedLoop /\ lib_fn # "send_telegram_notification") =>
        \A k \in 1..Len(lib_out.ret.attempts) :
            lib_out.ret.attempts[k].to_headers = <<lib_out.ret.attempts[k].to>>

\* the message to the first recipient has one To header, its own
FirstMessageOneToHeader ==
    (ReachedLoop /\ lib_fn # "send_telegram_notification") =>
        lib_out.ret.attempts[1].to_headers = <<lib_out.ret.attempts[1].to>>

====
